---- MODULE Spec2Model ----
(***************************************************************************)
(* Permission resolution and invitation lifecycle of the appointment       *)
(* calendar: the resolver getUserAppointmentPermission, the grant tables   *)
(* appointment_assignee and dashboard_access, and the route handlers that  *)
(* create, redeem and discard grants.                                      *)
(***************************************************************************)
EXTENDS Integers, Sequences, FiniteSets

\* ------------------------------------------------------------------ bounds
\* longest assignee list handed to the resolver
MaxLen == 2
\* rows ever inserted into the two grant tables
MaxRows == 2
\* redeem requests in flight or completed
NumCalls == 2

\* ------------------------------------------------------------ value domains
\* SQL NULL / JS null / JS undefined
NULL == "NULL"
\* invitation_token of a row inserted without one (SQL NULL)
NoToken == 0
\* a token value that no create ever issued
BogusToken == 99

Users == {"u1", "u2", "u3"}
EmailOf(u) == CASE u = "u1" -> "e1" [] u = "u2" -> "e2" [] OTHER -> "e3"

\* the appointments table: two stored appointments and their user_id
AppointmentIds == {"a1", "a2"}
OwnerOf(a) == IF a = "a1" THEN "u1" ELSE "u2"

Statuses == {"pending", "accepted", "declined"}
Permissions == {"read", "write", "full"}
UserTypes == {"relatives", "patients"}

\* JS truthiness of a string | null | undefined value
Truthy(v) == v # NULL /\ v # ""

\* ------------------------------------------------------- permission resolver
\* Array.prototype.find with the resolver's predicate: index of the first
\* accepted assignee whose user or invited_email equals userId, 0 if none
RECURSIVE FindFrom(_, _, _)
FindFrom(assignees, userId, i) ==
    IF i > Len(assignees) THEN 0
    ELSE IF (assignees[i].user = userId \/ assignees[i].invited_email = userId)
            /\ assignees[i].status = "accepted"
         THEN i
         ELSE FindFrom(assignees, userId, i + 1)

\* mutant: the owner test is made after the assignee lookup
OwnerCheckedLast(appointment, assignees, userId) ==
    IF ~Truthy(userId) THEN NULL
    ELSE LET i == FindFrom(assignees, userId, 1) IN
         IF i # 0 /\ Truthy(assignees[i].permission) THEN assignees[i].permission
         ELSE IF appointment.user_id = userId THEN "owner" ELSE NULL

\* mutant: the status test of the lookup is dropped
RECURSIVE FindAnyStatus(_, _, _)
FindAnyStatus(assignees, userId, i) ==
    IF i > Len(assignees) THEN 0
    ELSE IF assignees[i].user = userId \/ assignees[i].invited_email = userId
         THEN i
         ELSE FindAnyStatus(assignees, userId, i + 1)

StatusIgnored(appointment, assignees, userId) ==
    IF ~Truthy(userId) THEN NULL
    ELSE IF appointment.user_id = userId THEN "owner"
    ELSE LET i == FindAnyStatus(assignees, userId, 1) IN
         IF i = 0 THEN NULL
         ELSE IF Truthy(assignees[i].permission) THEN assignees[i].permission
         ELSE NULL

\* mutant: the identity guard is dropped
NoIdentityGuard(appointment, assignees, userId) ==
    IF appointment.user_id = userId THEN "owner"
    ELSE LET i == FindFrom(assignees, userId, 1) IN
         IF i = 0 THEN NULL
         ELSE IF Truthy(assignees[i].permission) THEN assignees[i].permission
         ELSE NULL

getUserAppointmentPermission(appointment, assignees, userId) ==
    IF ~Truthy(userId) THEN NULL
    ELSE IF appointment.user_id = userId THEN "owner"
    ELSE LET i == FindFrom(assignees, userId, 1) IN
         IF i = 0 THEN NULL
         ELSE IF Truthy(assignees[i].permission) THEN assignees[i].permission
         ELSE NULL

\* ---------------------------------------------------------------- variables
VARIABLES
    appointment_assignee,   \* rows of table appointment_assignee
    dashboard_access,       \* rows of table dashboard_access
    nextId,                 \* rows inserted so far + 1 (row ids in creation order)
    nextToken,              \* tokens stored so far + 1 (uuidv4() is fresh, and
                            \* a token whose insert fails is seen nowhere)
    calls,                  \* the redeem requests: position, body, response
    response,               \* response of the last completed other handler
    resolverIn,             \* arguments of a resolver call
    resolverOut,            \* its result
    appointments,           \* rows of table appointments
    apiResponse,            \* response of the last /api/appointments request
    appointmentsCreated,    \* appointments inserted by POST /api/appointments
    rateLimitStore,         \* the Map of checkRateLimit: identifier -> record
    now,                    \* Date.now()
    rateLimitLog,           \* the checkRateLimit calls so far: identifier,
                            \* time and result of each, in order
    users,                  \* rows of table users
    registrations,          \* the register requests: position, body, response
    acceptSessions,         \* the session each redeem request was sent with
    accessReply,            \* a GET /api/dashboard-access request and its reply
    dedupeIn,               \* arguments of a dedupeAssignees call
    dedupeOut,              \* its result
    dialog,                 \* the edit dialog: position, list and fetched data
    sending,                \* tokens of the invitations whose create handlers
                            \* await sendInvitationEmail
    posting                 \* the POSTs of assignees inside their insert
                            \* loops: appointment, session, entries to insert

vars == <<appointment_assignee, dashboard_access, nextId, nextToken, calls,
          response, resolverIn, resolverOut, appointments, apiResponse,
          appointmentsCreated, rateLimitStore, now, rateLimitLog, users,
          registrations, acceptSessions, accessReply, dedupeIn, dedupeOut,
          dialog, sending, posting>>
tables == <<appointment_assignee, dashboard_access>>
lifecycleVars == <<appointment_assignee, dashboard_access, nextId, nextToken,
                   calls, response>>
resolverVars == <<resolverIn, resolverOut>>
appointmentVars == <<appointments, apiResponse, appointmentsCreated>>
rateVars == <<rateLimitStore, now, rateLimitLog>>
registerVars == <<users, registrations>>
\* what the pure functions and the list request leave behind
viewVars == <<acceptSessions, accessReply, dedupeIn, dedupeOut>>
clientVars == <<viewVars, dialog, sending, posting>>
\* the variables of the grant, resolver and appointment handlers
coreVars == <<lifecycleVars, resolverVars, appointmentVars>>
\* the variables of the other services
serviceVars == <<rateVars, registerVars, clientVars>>

Calls == 1 .. NumCalls

NoResponse == [status |-> 0, body |-> "none", token |-> NoToken]
Unset == "unset"
IdleCall == [pc |-> "idle", token |-> NoToken, userId |-> NULL,
             status |-> 0, body |-> "none"]
IdleResolver == [appointment |-> [id |-> "a1", user_id |-> "u1"],
                 assignees |-> <<>>, userId |-> NULL]

LifecycleInit ==
    /\ appointment_assignee = {}
    /\ dashboard_access = {}
    /\ nextId = 1
    /\ nextToken = 1
    /\ calls = [p \in Calls |-> IdleCall]
    /\ response = NoResponse

\* the stored appointments: title, start and end of each, and its owner
StoredAppointments ==
    {[id |-> a, user_id |-> OwnerOf(a), title |-> "t0", start |-> 1, end |-> 2] :
        a \in AppointmentIds}

ApiReply(status, body) == [status |-> status, body |-> body]
NoApiResponse == ApiReply(0, "none")

AppointmentInit ==
    /\ appointments = StoredAppointments
    /\ apiResponse = NoApiResponse
    /\ appointmentsCreated = 0

\* requests of one register run
NumRegistrations == 2
Registrations == 1 .. NumRegistrations
IdleRegistration == [pc |-> "idle", email |-> <<>>, password |-> 0, status |-> 0]

\* new Map()
EmptyMap == [k \in {} |-> 0]

\* an empty Map, the clock at 0, no call made
RateInit ==
    /\ rateLimitStore = EmptyMap
    /\ now = 0
    /\ rateLimitLog = <<>>

\* the users table before any registration, no request made
RegisterInit ==
    /\ users = {}
    /\ registrations = [r \in Registrations |-> IdleRegistration]

\* no list request made
NoAccessReply == [session |-> NULL, status |-> NULL, code |-> 0, rows |-> <<>>]
\* the dialog before its save handler runs
IdleDialog == [pc |-> "idle", session |-> NULL, appointment |-> [id |-> NULL],
               prefill |-> [pc |-> "idle", assignees |-> <<>>],
               assignees |-> <<>>, updates |-> <<>>, saved |-> <<>>,
               added |-> 0, pending |-> {}, merged |-> <<>>]

\* dedupeAssignees not called yet
NoDedupe == [done |-> FALSE, assignees |-> <<>>]

\* the rows the POSTs inside their loops have still to insert
RECURSIVE InsertsAhead(_)
InsertsAhead(posts) ==
    IF posts = <<>> THEN 0 ELSE Len(Head(posts).rest) + InsertsAhead(Tail(posts))
\* a sequence without its i-th entry
RemoveAt(seq, i) == SubSeq(seq, 1, i - 1) \o SubSeq(seq, i + 1, Len(seq))

\* no redeem request sent, no list request made, no dedupe call, dialog open
ClientInit ==
    /\ acceptSessions = [p \in Calls |-> Unset]
    /\ accessReply = NoAccessReply
    /\ dedupeIn = [assignees |-> <<>>, appointmentId |-> "a1"]
    /\ dedupeOut = NoDedupe
    /\ dialog = IdleDialog
    /\ sending = {}
    /\ posting = <<>>

ServiceInit == RateInit /\ RegisterInit /\ ClientInit

\* ------------------------------------------------------------ resolver spec
\* the stored appointments as the resolver sees them
AppointmentRecords == {[id |-> a, user_id |-> OwnerOf(a)] : a \in AppointmentIds}

\* assignee rows as the client receives them (the fields the resolver reads)
AssigneeRecords ==
    [user : {NULL, "u2"}, invited_email : {NULL, "e2", "u2"},
     status : Statuses, permission : Permissions]

AssigneeLists == UNION {[1 .. n -> AssigneeRecords] : n \in 0 .. MaxLen}

\* candidate identities: null/undefined, the empty string, a user id
CandidateIds == {NULL, "", "u2"}

ResolverInit ==
    /\ LifecycleInit
    /\ AppointmentInit
    /\ ServiceInit
    /\ resolverIn \in [appointment : AppointmentRecords,
                       assignees : AssigneeLists,
                       userId : CandidateIds]
    /\ resolverOut = Unset

Resolve ==
    /\ resolverOut = Unset
    /\ resolverOut' = getUserAppointmentPermission(
            resolverIn.appointment, resolverIn.assignees, resolverIn.userId)
    /\ UNCHANGED <<resolverIn, lifecycleVars, appointmentVars, serviceVars>>

ResolverNext == Resolve

ResolverSpec == ResolverInit /\ [][ResolverNext]_vars

\* the accepted assignees that match the candidate, by user id or by email
Matching(assignees, userId) ==
    {i \in 1 .. Len(assignees) :
        /\ assignees[i].status = "accepted"
        /\ (assignees[i].user = userId \/ assignees[i].invited_email = userId)}

PermissionRank(p) ==
    CASE p = "full" -> 3 [] p = "write" -> 2 [] p = "read" -> 1 [] OTHER -> 0

\* C2: the owner of the appointment resolves to owner whatever the grants
\* are, including grants naming the owner's own id or email.
C2_OwnerSupremacy ==
    (resolverOut # Unset /\ Truthy(resolverIn.userId)
        /\ resolverIn.appointment.user_id = resolverIn.userId)
    => resolverOut = "owner"

\* an owner resolved while an accepted read grant names the owner's own id
C2_Witness ==
    /\ resolverOut = "owner"
    /\ resolverIn.appointment.user_id = resolverIn.userId
    /\ \E i \in 1 .. Len(resolverIn.assignees) :
          /\ resolverIn.assignees[i].user = resolverIn.userId
          /\ resolverIn.assignees[i].status = "accepted"
          /\ resolverIn.assignees[i].permission = "read"

\* C3: a non-owner whose matching grants are all pending or declined gets
\* none; a read, write or full result comes from an accepted matching grant.
C3_AcceptedOnly ==
    (resolverOut # Unset /\ resolverIn.appointment.user_id # resolverIn.userId)
    => /\ (Matching(resolverIn.assignees, resolverIn.userId) = {}
            => resolverOut = NULL)
       /\ (resolverOut \in Permissions
            => \E i \in Matching(resolverIn.assignees, resolverIn.userId) :
                  resolverIn.assignees[i].permission = resolverOut)

\* a non-owner resolved to none while holding a pending and a declined grant
C3_Witness ==
    /\ resolverOut = NULL
    /\ Truthy(resolverIn.userId)
    /\ resolverIn.appointment.user_id # resolverIn.userId
    /\ Len(resolverIn.assignees) = 2
    /\ resolverIn.assignees[1].user = resolverIn.userId
    /\ resolverIn.assignees[1].status = "pending"
    /\ resolverIn.assignees[2].invited_email = resolverIn.userId
    /\ resolverIn.assignees[2].status = "declined"

\* C4: a non-owner matching several accepted grants resolves to the
\* highest-ranked permission among them, whatever their order in the list.
C4_HighestWins ==
    (resolverOut # Unset /\ Truthy(resolverIn.userId)
        /\ resolverIn.appointment.user_id # resolverIn.userId
        /\ Matching(resolverIn.assignees, resolverIn.userId) # {})
    => \A i \in Matching(resolverIn.assignees, resolverIn.userId) :
          PermissionRank(resolverOut)
              >= PermissionRank(resolverIn.assignees[i].permission)

\* C5: a call without a candidate identity resolves to none.
C5_NoIdentity ==
    (resolverOut # Unset /\ ~Truthy(resolverIn.userId)) => resolverOut = NULL

\* a call with userId null resolved while an accepted grant has user null
C5_Witness ==
    /\ resolverOut = NULL
    /\ resolverIn.userId = NULL
    /\ \E i \in 1 .. Len(resolverIn.assignees) :
          /\ resolverIn.assignees[i].user = NULL
          /\ resolverIn.assignees[i].status = "accepted"

\* C11: for a non-owner candidate with user id U and email EmailOf(U), an
\* accepted grant whose invited_email is that email and whose user is null or
\* another id is matched: the result is the permission of a grant that names
\* the candidate by id or by email.
C11_EmailGrantMatched ==
    (/\ resolverOut # Unset
     /\ resolverIn.userId \in Users
     /\ resolverIn.appointment.user_id # resolverIn.userId
     /\ \E i \in 1 .. Len(resolverIn.assignees) :
           /\ resolverIn.assignees[i].status = "accepted"
           /\ resolverIn.assignees[i].invited_email = EmailOf(resolverIn.userId)
           /\ resolverIn.assignees[i].user # resolverIn.userId)
    => \E i \in 1 .. Len(resolverIn.assignees) :
          /\ resolverIn.assignees[i].status = "accepted"
          /\ \/ resolverIn.assignees[i].user = resolverIn.userId
             \/ resolverIn.assignees[i].invited_email = EmailOf(resolverIn.userId)
          /\ resolverIn.assignees[i].permission = resolverOut

\* ------------------------------------------------------------ grant storage
\* a || b of JavaScript on string | null | undefined values
OrElse(v, d) == IF Truthy(v) THEN v ELSE d

\* constraints of table appointment_assignee: the foreign keys on appointment,
\* "user" and invited_by, the CHECKs on user_type, status and permission, and
\* UNIQUE (invitation_token)
AssigneeInsertOk(row) ==
    /\ row.appointment \in AppointmentIds
    /\ row.user \in Users \cup {NULL}
    /\ row.user_type \in UserTypes \cup {NULL}
    /\ row.status \in Statuses \cup {NULL}
    /\ row.permission \in Permissions \cup {NULL}
    /\ row.invited_by \in Users \cup {NULL}
    /\ (row.invitation_token # NoToken =>
            \A r \in appointment_assignee : r.invitation_token # row.invitation_token)

\* constraints of table dashboard_access
DashboardInsertOk(row) ==
    /\ row.owner_user_id \in Users
    /\ row.invited_user_id \in Users \cup {NULL}
    /\ row.status \in Statuses \cup {NULL}
    /\ row.permission \in Permissions \cup {NULL}
    /\ row.invited_by \in Users \cup {NULL}
    /\ (row.invitation_token # NoToken =>
            \A r \in dashboard_access : r.invitation_token # row.invitation_token)

Reply(status, body) == [status |-> status, body |-> body, token |-> NoToken]

\* ------------------------------------------------- POST /api/invitations
\* request bodies: the well-formed invitations (to an appointment, with and
\* without invitedUserId, and to a dashboard), one with a permission outside
\* the CHECK of the tables and one without a permission
Invite(type, email, resourceId, permission, invitedUserId) ==
    [type |-> type, email |-> email, resourceId |-> resourceId,
     permission |-> permission, invitedUserId |-> invitedUserId]
InvitationBodies ==
    {Invite("appointment", "e2", "a1", "write", NULL),
     Invite("appointment", "e2", "a1", "full", "u2"),
     Invite("dashboard", "e2", "u1", "write", NULL),
     Invite("appointment", "e2", "a1", "admin", NULL),
     Invite("dashboard", "e2", "u1", NULL, NULL)}
\* getSessionUser(): the id of the signed-in user, or null
Sessions == Users \cup {NULL}
\* the sessions that send invitations: none, the owner, a user owning nothing
InviterSessions == {NULL, "u1", "u3"}
\* the sessions that edit the assignee list of the invited appointment: its
\* owner and a user owning nothing
EditorSessions == {"u1", "u3"}

\* mutant: the insert is undone when the notification fails
RolledBackOnEmailFailure(table, token, emailOk) ==
    IF emailOk THEN table ELSE {r \in table : r.invitation_token # token}

\* a table after sendInvitationEmail returned or threw: the insert was
\* committed before the mail was sent and no catch block undoes it
AfterSend(table, token, emailOk) == table

\* the handler's effect up to the await of sendInvitationEmail: the two
\* tables, the counters, the response when the handler has returned, and
\* the token when it goes on to send the mail
CreateOutcome(aa, da, id, tok, resp, mail) ==
    [aa |-> aa, da |-> da, nextId |-> id, nextToken |-> tok, response |-> resp,
     sending |-> mail]

CreateInvitationResult(session, body) ==
    LET same(resp) == CreateOutcome(appointment_assignee, dashboard_access,
                                    nextId, nextToken, resp, NoToken)
        token == nextToken
        aRow == [id |-> nextId, appointment |-> body.resourceId,
                 user |-> OrElse(body.invitedUserId, NULL), user_type |-> NULL,
                 invited_email |-> body.email, status |-> "pending",
                 invitation_token |-> token, permission |-> body.permission,
                 invited_by |-> session]
        dRow == [id |-> nextId, owner_user_id |-> body.resourceId,
                 invited_user_id |-> OrElse(body.invitedUserId, NULL),
                 invited_email |-> body.email, status |-> "pending",
                 invitation_token |-> token, permission |-> body.permission,
                 invited_by |-> session]
    IN  IF session = NULL THEN same(Reply(401, "Unauthorized"))
        ELSE IF ~Truthy(body.type) \/ ~Truthy(body.email)
                \/ ~Truthy(body.resourceId) \/ ~Truthy(body.permission)
             THEN same(Reply(400, "Missing required fields"))
        ELSE IF body.type = "appointment"
             THEN IF AssigneeInsertOk(aRow)
                  THEN CreateOutcome(appointment_assignee \cup {aRow},
                           dashboard_access, nextId + 1, nextToken + 1,
                           response, token)
                  ELSE same(Reply(500, "insert error"))
        ELSE IF body.type = "dashboard"
             THEN IF DashboardInsertOk(dRow)
                  THEN CreateOutcome(appointment_assignee,
                           dashboard_access \cup {dRow},
                           nextId + 1, nextToken + 1, response, token)
                  ELSE same(Reply(500, "insert error"))
        ELSE same(Reply(400, "Invalid invitation type"))

\* the handler up to its INSERT: a refused request is answered at once, an
\* accepted one has stored its row and awaits the mail, while other creates
\* run
CreateInvitation(session, body) ==
    /\ nextId + InsertsAhead(posting) <= MaxRows
    /\ LET out == CreateInvitationResult(session, body) IN
         /\ appointment_assignee' = out.aa
         /\ dashboard_access' = out.da
         /\ nextId' = out.nextId
         /\ nextToken' = out.nextToken
         /\ response' = out.response
         /\ sending' = IF out.sending = NoToken THEN sending
                        ELSE sending \cup {out.sending}
    /\ UNCHANGED <<calls, resolverVars, appointmentVars, rateVars, registerVars,
                   viewVars, dialog, posting>>

\* sendInvitationEmail of the create that issued the token returns or
\* throws, and the handler answers
SendInvitation(token, emailOk) ==
    /\ token \in sending
    /\ appointment_assignee' = AfterSend(appointment_assignee, token, emailOk)
    /\ dashboard_access' = AfterSend(dashboard_access, token, emailOk)
    /\ response' = IF emailOk
                   THEN [status |-> 200, body |-> "Invitation sent",
                         token |-> token]
                   ELSE Reply(500, "email error")
    /\ sending' = sending \ {token}
    /\ UNCHANGED <<nextId, nextToken, calls, resolverVars, appointmentVars,
                   rateVars, registerVars, viewVars, dialog, posting>>

\* ------------------------------------------- POST /api/invitations/accept
\* request bodies <<token, userId>>: an issued or a never issued token
\* presented by one of two users, and one body for each missing field
RedeemBodies ==
    (((1 .. (nextToken - 1)) \cup {BogusToken}) \X {"u2", "u3"})
        \cup {<<NoToken, "u2">>, <<BogusToken, "">>}

NotFoundBody == "Invalid or already accepted invitation"

Finished(p, token, userId, status, body) ==
    [calls EXCEPT ![p] = [pc |-> "done", token |-> token, userId |-> userId,
                          status |-> status, body |-> body]]

\* mutant: the UPDATE loses its status guard
AssigneePendingUnguarded(token) ==
    {r \in appointment_assignee : r.invitation_token = token}

\* mutant: the UPDATE loses its token test
AssigneePendingAnyToken(token) ==
    {r \in appointment_assignee : r.status = "pending"}

\* rows the UPDATE of appointment_assignee selects
AssigneePending(token) ==
    {r \in appointment_assignee :
        r.invitation_token = token /\ r.status = "pending"}

\* mutant: the dashboard UPDATE loses its status guard
DashboardPendingUnguarded(token) ==
    {r \in dashboard_access : r.invitation_token = token}

\* rows the UPDATE of dashboard_access selects
DashboardPending(token) ==
    {r \in dashboard_access :
        r.invitation_token = token /\ r.status = "pending"}

\* mutant: the UPDATE sets the status and leaves "user" alone
AcceptWithoutBinding(r, userId) == [r EXCEPT !.status = "accepted"]

\* mutant: the UPDATE binds the row only when "user" is still null
AcceptKeepsBinding(r, userId) ==
    [r EXCEPT !.status = "accepted",
              !.user = IF r.user = NULL THEN userId ELSE r.user]

\* mutant: the UPDATE also overwrites the token with a fixed used-marker
AcceptAndStampToken(r, userId) ==
    [r EXCEPT !.status = "accepted", !.user = userId,
              !.invitation_token = BogusToken]

\* SET status = 'accepted', "user" = $1
AcceptAssignee(r, userId) == [r EXCEPT !.status = "accepted", !.user = userId]

\* SET status = 'accepted', invited_user_id = $1
AcceptDashboard(r, userId) ==
    [r EXCEPT !.status = "accepted", !.invited_user_id = userId]

\* request validation and the first UPDATE ... RETURNING id (the requests are
\* interchangeable, so they take the slots of calls in order)
RedeemFirstUpdate(p, token, userId) ==
    /\ calls[p].pc = "idle"
    /\ \A q \in Calls : q < p => calls[q].pc # "idle"
    /\ IF token = NoToken \/ ~Truthy(userId)
       THEN /\ calls' = Finished(p, token, userId, 400, "Missing token or userId")
            /\ UNCHANGED appointment_assignee
       ELSE LET hit == AssigneePending(token) IN
            /\ appointment_assignee' =
                 (appointment_assignee \ hit) \cup
                 {AcceptAssignee(r, userId) : r \in hit}
            /\ calls' = IF hit # {}
                        THEN Finished(p, token, userId, 200,
                                      "Appointment invitation accepted")
                        ELSE [calls EXCEPT ![p] = [pc |-> "dashboard",
                                 token |-> token, userId |-> userId,
                                 status |-> 0, body |-> "none"]]

\* POST /api/invitations/accept as the lifecycle sees it: the handler never
\* reads the session
RedeemAppointment(p, token, userId) ==
    /\ RedeemFirstUpdate(p, token, userId)
    /\ UNCHANGED <<dashboard_access, nextId, nextToken, response, resolverVars, appointmentVars, serviceVars>>

\* the second UPDATE ... RETURNING id and the final response
RedeemDashboard(p) ==
    /\ calls[p].pc = "dashboard"
    /\ LET token == calls[p].token
           userId == calls[p].userId
           hit == DashboardPending(token) IN
         /\ dashboard_access' =
              (dashboard_access \ hit) \cup
              {AcceptDashboard(r, userId) : r \in hit}
         /\ calls' = IF hit # {}
                     THEN Finished(p, token, userId, 200,
                                   "Dashboard invitation accepted")
                     ELSE Finished(p, token, userId, 404, NotFoundBody)
    /\ UNCHANGED <<appointment_assignee, nextId, nextToken, response, resolverVars, appointmentVars, serviceVars>>

\* ----------------------- DELETE /api/appointments/[id]/permissions (discard)
\* ids a request path can carry: the rows inserted so far and an unknown one
RowIdInputs == 1 .. MaxRows + 1

\* mutant: the DELETE removes the row only while it is pending
DiscardOnlyPending(session, id) ==
    /\ IF session = NULL
       THEN /\ response' = Reply(401, "Unauthorized")
            /\ UNCHANGED appointment_assignee
       ELSE LET gone == {r \in appointment_assignee :
                            r.id = id /\ r.status = "pending"} IN
            /\ appointment_assignee' = appointment_assignee \ gone
            /\ response' = IF gone = {} THEN Reply(404, "Invitation not found")
                           ELSE Reply(200, "success")
    /\ UNCHANGED <<dashboard_access, nextId, nextToken, calls, resolverVars, appointmentVars, serviceVars>>

DiscardAppointmentInvitation(session, id) ==
    /\ IF session = NULL
       THEN /\ response' = Reply(401, "Unauthorized")
            /\ UNCHANGED appointment_assignee
       ELSE LET gone == {r \in appointment_assignee : r.id = id} IN
            /\ appointment_assignee' = appointment_assignee \ gone
            /\ response' = IF gone = {} THEN Reply(404, "Invitation not found")
                           ELSE Reply(200, "success")
    /\ UNCHANGED <<dashboard_access, nextId, nextToken, calls, resolverVars, appointmentVars, serviceVars>>

\* -------------------------- DELETE /api/dashboard/[id]/permissions (discard)
DiscardDashboardInvitation(session, id) ==
    /\ IF session = NULL
       THEN /\ response' = Reply(401, "Unauthorized")
            /\ UNCHANGED dashboard_access
       ELSE LET gone == {r \in dashboard_access : r.id = id} IN
            /\ dashboard_access' = dashboard_access \ gone
            /\ response' = IF gone = {} THEN Reply(404, "Invitation not found")
                           ELSE Reply(200, "success")
    /\ UNCHANGED <<appointment_assignee, nextId, nextToken, calls, resolverVars, appointmentVars, serviceVars>>

\* ------------------------------------------ /api/appointments/[id]/assignees
\* path ids: the stored appointments and an unknown appointment
AppointmentIdInputs == {"a1", "a2", "a9"}
\* path ids of /api/appointments/[id]: those and the appointment a POST creates
AppointmentPathIds == AppointmentIdInputs \cup {"a3"}
isValidUUID(id) == id # "zz"

\* assignee objects of a request body: one relying on every default, one of
\* user_type "users" (outside the CHECK on user_type), a patient with every
\* field set, and a declined relative named by email
Assignee(user, user_type, invited_email, status, permission) ==
    [user |-> user, user_type |-> user_type, invited_email |-> invited_email,
     status |-> status, permission |-> permission]
AssigneeInputs ==
    {Assignee(NULL, NULL, "e2", NULL, NULL),
     Assignee("u2", "users", "e2", "pending", "read"),
     Assignee("p1", "patients", NULL, "accepted", "full"),
     Assignee(NULL, "relatives", "e3", "declined", "write")}
\* longest assignees array of a request body
MaxAssignees == 1
AssigneeBodies == UNION {[1 .. n -> AssigneeInputs] : n \in 0 .. MaxAssignees}
\* the bodies sent while invitations are created and redeemed: those of the
\* assignee relying on every default and of the accepted patient
InvitedAssigneeBodies ==
    {b \in AssigneeBodies :
        /\ Len(b) >= 1
        /\ \A i \in 1 .. Len(b) : b[i].user_type \in {NULL, "patients"}}

\* the row one loop iteration inserts
AssigneeRow(id, rowId, assignee, session) ==
    [id |-> rowId, appointment |-> id,
     user |-> IF assignee.user_type = "users"
              THEN OrElse(assignee.user, NULL) ELSE NULL,
     user_type |-> OrElse(assignee.user_type, NULL),
     invited_email |-> OrElse(assignee.invited_email, NULL),
     status |-> OrElse(assignee.status, "pending"),
     invitation_token |-> NoToken,
     permission |-> OrElse(assignee.permission, "read"),
     invited_by |-> session]

\* the handler up to its loop: session, id format, the ownership SELECT and
\* the assignees array; an accepted request enters the loop, while other
\* requests run
AddAssignees(session, id, assignees) ==
    /\ nextId + InsertsAhead(posting) + Len(assignees) - 1 <= MaxRows
    /\ IF session = NULL
       THEN /\ response' = Reply(401, "Unauthorized")
            /\ UNCHANGED posting
       ELSE IF ~isValidUUID(id)
       THEN /\ response' = Reply(400, "Invalid appointment ID format")
            /\ UNCHANGED posting
       ELSE IF id \notin AppointmentIds
       THEN /\ response' = Reply(404, "Appointment not found")
            /\ UNCHANGED posting
       ELSE IF OwnerOf(id) # session
       THEN /\ response' = Reply(403, "Forbidden: You can only modify your own appointments")
            /\ UNCHANGED posting
       ELSE IF Len(assignees) = 0
       THEN /\ response' = Reply(400, "Assignees array is required")
            /\ UNCHANGED posting
       ELSE /\ posting' = Append(posting, [id |-> id, session |-> session,
                                           rest |-> assignees])
            /\ UNCHANGED response
    /\ UNCHANGED <<appointment_assignee, dashboard_access, nextId, nextToken,
                   calls, resolverVars, appointmentVars, rateVars, registerVars,
                   viewVars, dialog, sending>>

\* one iteration of the loop, an awaited INSERT: a constraint violation
\* throws and is answered 500, the rows inserted before it stay; after the
\* last INSERT the handler answers
InsertAssignee(i) ==
    /\ i \in 1 .. Len(posting)
    /\ LET post == posting[i]
           row == AssigneeRow(post.id, nextId, Head(post.rest), post.session) IN
         IF ~AssigneeInsertOk(row)
         THEN /\ response' = Reply(500, "insert error")
              /\ posting' = RemoveAt(posting, i)
              /\ UNCHANGED <<appointment_assignee, nextId>>
         ELSE /\ appointment_assignee' = appointment_assignee \cup {row}
              /\ nextId' = nextId + 1
              /\ IF Len(post.rest) = 1
                 THEN /\ response' = Reply(200, "Assignees added successfully")
                      /\ posting' = RemoveAt(posting, i)
                 ELSE /\ posting' = [posting EXCEPT ![i].rest = Tail(@)]
                      /\ UNCHANGED response
    /\ UNCHANGED <<dashboard_access, nextToken, calls, resolverVars,
                   appointmentVars, rateVars, registerVars, viewVars, dialog,
                   sending>>

\* mutant: the DELETE handler skips the ownership test
RemoveAssigneesUnchecked(session, id) ==
    /\ IF session = NULL
       THEN /\ response' = Reply(401, "Unauthorized")
            /\ UNCHANGED appointment_assignee
       ELSE IF id \notin AppointmentIds
       THEN /\ response' = Reply(404, "Appointment not found")
            /\ UNCHANGED appointment_assignee
       ELSE /\ appointment_assignee' =
                 {r \in appointment_assignee : r.appointment # id}
            /\ response' = Reply(200, "Assignees deleted successfully")
    /\ UNCHANGED <<dashboard_access, nextId, nextToken, calls, resolverVars, appointmentVars, serviceVars>>

RemoveAssignees(session, id) ==
    /\ IF session = NULL
       THEN /\ response' = Reply(401, "Unauthorized")
            /\ UNCHANGED appointment_assignee
       ELSE IF ~isValidUUID(id)
       THEN /\ response' = Reply(400, "Invalid appointment ID format")
            /\ UNCHANGED appointment_assignee
       ELSE IF id \notin AppointmentIds
       THEN /\ response' = Reply(404, "Appointment not found")
            /\ UNCHANGED appointment_assignee
       ELSE IF OwnerOf(id) # session
       THEN /\ response' = Reply(403, "Forbidden: You can only modify your own appointments")
            /\ UNCHANGED appointment_assignee
       ELSE /\ appointment_assignee' =
                 {r \in appointment_assignee : r.appointment # id}
            /\ response' = Reply(200, "Assignees deleted successfully")
    /\ UNCHANGED <<dashboard_access, nextId, nextToken, calls, resolverVars, appointmentVars, serviceVars>>

\* ------------------------------------------------------------ specification
Init ==
    /\ LifecycleInit
    /\ AppointmentInit
    /\ ServiceInit
    /\ resolverIn = IdleResolver
    /\ resolverOut = Unset

Next ==
    \/ \E s \in InviterSessions, b \in InvitationBodies : CreateInvitation(s, b)
    \/ \E t \in sending, ok \in BOOLEAN : SendInvitation(t, ok)
    \/ \E p \in Calls, b \in RedeemBodies : RedeemAppointment(p, b[1], b[2])
    \/ \E p \in Calls : RedeemDashboard(p)
    \/ \E s \in Sessions, id \in RowIdInputs : DiscardAppointmentInvitation(s, id)
    \/ \E s \in Sessions, id \in RowIdInputs : DiscardDashboardInvitation(s, id)
    \/ \E s \in EditorSessions, id \in {"a1"}, a \in InvitedAssigneeBodies :
          AddAssignees(s, id, a)
    \/ \E i \in DOMAIN posting : InsertAssignee(i)
    \/ \E s \in EditorSessions, id \in {"a1"} : RemoveAssignees(s, id)

Spec == Init /\ [][Next]_vars

\* ------------------------------------------------------- lifecycle claims
IssuedTokens == 1 .. (nextToken - 1)

\* the user a grant row is bound to, in either table
BoundUser(r) == IF "user" \in DOMAIN r THEN r.user ELSE r.invited_user_id

TokenRows(t) ==
    {r \in appointment_assignee \cup dashboard_access : r.invitation_token = t}

Done(p) == calls[p].pc = "done"
Winners(t) == {p \in Calls : Done(p) /\ calls[p].token = t /\ calls[p].status = 200}

\* C1: of the redeem calls made on one issued token exactly one succeeds, the
\* grant is accepted and bound to that call's user id, and every other call
\* gets the not-found error and leaves the binding alone.
C1_ExactlyOnceRedeem ==
    \A t \in IssuedTokens :
        /\ Cardinality(Winners(t)) <= 1
        /\ \A p \in Winners(t) : \A r \in TokenRows(t) :
              r.status = "accepted" /\ BoundUser(r) = calls[p].userId
        /\ \A p \in Calls :
              (Done(p) /\ calls[p].token = t /\ Truthy(calls[p].userId)
                  /\ p \notin Winners(t))
              => /\ calls[p].status = 404 /\ calls[p].body = NotFoundBody
                 /\ \A r \in TokenRows(t) : r.status # "pending"
        /\ \A r \in TokenRows(t) : r.status = "accepted" => Winners(t) # {}

\* two finished calls with distinct user ids on one token: a winner the grant is
\* bound to, and a loser with the not-found error
C1_Witness ==
    \E p, q \in Calls : \E r \in appointment_assignee \cup dashboard_access :
        /\ Done(p) /\ Done(q)
        /\ calls[p].token = r.invitation_token
        /\ calls[q].token = r.invitation_token
        /\ calls[p].userId # calls[q].userId
        /\ calls[p].status = 200 /\ calls[q].status = 404
        /\ r.status = "accepted" /\ BoundUser(r) = calls[p].userId

\* C6: a redeem step on a token whose grant is already accepted, like one on
\* a token that was never issued, changes no grant, and the call ends with
\* the one not-found response.
C6_RedeemAcceptedIsNotFound ==
    [][\A p \in Calls :
          (/\ calls'[p] # calls[p]
           /\ Truthy(calls'[p].userId)
           /\ calls'[p].token # NoToken
           /\ \/ calls'[p].token = BogusToken
              \/ \E r \in TokenRows(calls'[p].token) : r.status = "accepted")
          => /\ UNCHANGED tables
             /\ calls'[p].pc = "done"
                  => calls'[p].status = 404 /\ calls'[p].body = NotFoundBody]_vars

\* a finished call with the not-found error on a token whose grant is
\* accepted and bound to another user
C6_Witness ==
    \E p \in Calls : \E r \in appointment_assignee \cup dashboard_access :
        /\ Done(p)
        /\ calls[p].token = r.invitation_token
        /\ calls[p].status = 404 /\ calls[p].body = NotFoundBody
        /\ r.status = "accepted"
        /\ BoundUser(r) # calls[p].userId

\* the owner of the resource an invitation targets
ResourceOwner(body) ==
    IF body.type = "appointment" /\ body.resourceId \in AppointmentIds
    THEN OwnerOf(body.resourceId) ELSE body.resourceId

\* C7: a well-formed create by an authenticated user who does not own the
\* target resource is answered Forbidden and leaves the grant tables unchanged.
C7_NonOwnerCreateForbidden ==
    [][\A s \in Users, b \in InvitationBodies :
          (CreateInvitation(s, b) /\ s # ResourceOwner(b)
              /\ b.permission \in Permissions)
          => (response'.status = 403 /\ UNCHANGED tables)]_vars

\* the parties of a grant: who sent it and whom it names
IsParty(s, r) ==
    \/ r.invited_by = s
    \/ BoundUser(r) = s
    \/ r.invited_email = EmailOf(s)

\* C8: a discard by an authenticated user who is neither the inviter nor the
\* invitee of the grant is answered Forbidden and deletes no row.
C8_StrangerDiscardForbidden ==
    [][\A s \in Users, id \in RowIdInputs :
          /\ (DiscardAppointmentInvitation(s, id)
                /\ \E r \in appointment_assignee : r.id = id /\ ~IsParty(s, r))
             => (response'.status = 403 /\ UNCHANGED tables)
          /\ (DiscardDashboardInvitation(s, id)
                /\ \E r \in dashboard_access : r.id = id /\ ~IsParty(s, r))
             => (response'.status = 403 /\ UNCHANGED tables)]_vars

\* C9: a grant is accepted only through a successful redeem of its token.
C9_AcceptedOnlyByRedeem ==
    \A r \in appointment_assignee \cup dashboard_access :
        r.status = "accepted"
        => /\ r.invitation_token # NoToken
           /\ Winners(r.invitation_token) # {}

\* ------------------------------------------- the resolver on stored grants
\* SELECT * FROM appointment_assignee WHERE appointment = $1
\* ORDER BY created_at DESC: the newest row first
RECURSIVE NewestFirst(_)
NewestFirst(rows) ==
    IF rows = {} THEN <<>>
    ELSE LET r == CHOOSE x \in rows : \A y \in rows : y.id <= x.id
         IN  <<r>> \o NewestFirst(rows \ {r})

AssigneesOf(a) == NewestFirst({r \in appointment_assignee : r.appointment = a})

\* the permission the resolver gives user u on stored appointment a
EffectivePermission(a, u) ==
    getUserAppointmentPermission([id |-> a, user_id |-> OwnerOf(a)],
                                 AssigneesOf(a), u)

\* the accepted grants of appointment a that name u
AcceptedFor(a, u) ==
    {r \in appointment_assignee :
        /\ r.appointment = a /\ r.status = "accepted"
        /\ (r.user = u \/ r.invited_email = u)}

\* C10: once the invitee has redeemed the token of an invitation to an
\* appointment, the grant is accepted and bound to the redeeming account and
\* the resolver gives that account the invited permission (the grant being
\* the account's only accepted one there); a non-owner without an accepted
\* grant, as the invitee is before the redemption, resolves to none.
C10_RedeemGrantsPermission ==
    /\ \A p \in Calls : \A r \in appointment_assignee :
          (Done(p) /\ calls[p].status = 200 /\ r.invitation_token = calls[p].token)
          => /\ r.status = "accepted"
             /\ r.user = calls[p].userId
             /\ (calls[p].userId # OwnerOf(r.appointment)
                    /\ AcceptedFor(r.appointment, calls[p].userId) = {r})
                => EffectivePermission(r.appointment, calls[p].userId) = r.permission
    /\ \A r \in appointment_assignee : \A u \in Users :
          (r.status = "pending" /\ r.invitation_token # NoToken
              /\ u # OwnerOf(r.appointment) /\ AcceptedFor(r.appointment, u) = {})
          => EffectivePermission(r.appointment, u) = NULL

\* an invitation created with write and redeemed by a non-owner, who now
\* resolves to write
C10_Witness ==
    \E p \in Calls : \E r \in appointment_assignee :
        /\ Done(p) /\ calls[p].status = 200
        /\ r.invitation_token = calls[p].token
        /\ r.status = "accepted" /\ r.user = calls[p].userId
        /\ r.permission = "write"
        /\ calls[p].userId # OwnerOf(r.appointment)
        /\ EffectivePermission(r.appointment, calls[p].userId) = "write"

\* ------------------------------------------------- notification failures
\* C12: when the notification of a create fails, the inserted row stays, as a
\* pending grant whose token the next redeem would select, and a redeem of
\* that token made afterwards succeeds and accepts the grant.
C12_EmailFailureKeepsGrant ==
    [][/\ \A t \in sending :
             SendInvitation(t, FALSE)
             => /\ response'.body = "email error"
                /\ UNCHANGED tables
                /\ \A r \in appointment_assignee \cup dashboard_access :
                      (r.invitation_token = t /\ r.status = "pending")
                      => IF r \in appointment_assignee'
                         THEN AssigneePending(t)' = {r}
                         ELSE /\ AssigneePending(t)' = {}
                              /\ DashboardPending(t)' = {r}
       /\ \A p \in Calls : \A r \in appointment_assignee \cup dashboard_access :
             (/\ response.body = "email error"
              /\ r.id = nextId - 1 /\ r.status = "pending"
              /\ r.invitation_token # NoToken
              /\ calls'[p] # calls[p]
              /\ calls'[p].token = r.invitation_token
              /\ Truthy(calls'[p].userId)
              /\ calls'[p].pc = "done")
             => /\ calls'[p].status = 200
                /\ \E x \in appointment_assignee' \cup dashboard_access' :
                      x.id = r.id /\ x.status = "accepted"]_vars

\* the last handler answered with the notification error, and the grant it
\* had inserted has since been redeemed
C12_Witness ==
    /\ response.body = "email error"
    /\ \E r \in appointment_assignee \cup dashboard_access : \E p \in Calls :
          /\ r.id = nextId - 1
          /\ r.status = "accepted"
          /\ Done(p) /\ calls[p].status = 200
          /\ calls[p].token = r.invitation_token

\* C13: when the notification of a create fails, the create still answers
\* success and returns the token of the grant it inserted.
C13_EmailFailureStillSucceeds ==
    [][\A t \in sending :
          SendInvitation(t, FALSE)
          => /\ response'.status = 200
             /\ response'.token = t]_vars

\* ------------------------------------------------- validation of a create
\* C14: a create whose permission is not read, write or full is answered
\* with status 400 and writes no row.
C14_InvalidPermissionRejected ==
    [][\A s \in Users, b \in InvitationBodies :
          (CreateInvitation(s, b) /\ b.permission \notin Permissions)
          => (response'.status = 400 /\ UNCHANGED tables)]_vars

\* ------------------------------------------------- the binding of a redeem
\* C15 as stated: a pending grant created with "user" = X keeps X through a
\* successful redeem by any user.
C15_PresetBindingKept ==
    [][\A p \in Calls : \A r \in appointment_assignee \cup dashboard_access :
          (/\ calls'[p] # calls[p]
           /\ calls'[p].status = 200
           /\ calls'[p].token = r.invitation_token
           /\ r.status = "pending"
           /\ BoundUser(r) # NULL)
          => \E x \in appointment_assignee' \cup dashboard_access' :
                /\ x.id = r.id /\ x.status = "accepted"
                /\ BoundUser(x) = BoundUser(r)]_vars

\* C15 amended: a successful redeem binds the grant to the redeeming user
\* whether or not the grant was created with a user: a pending grant created
\* with "user" = X and redeemed by Y ends accepted with "user" = Y, every
\* other field as it was.
C15_RedeemRebinds ==
    [][\A p \in Calls : \A r \in appointment_assignee \cup dashboard_access :
          (/\ calls'[p] # calls[p]
           /\ calls'[p].status = 200
           /\ calls'[p].token = r.invitation_token
           /\ r.status = "pending")
          => \E x \in appointment_assignee' \cup dashboard_access' :
                /\ x.id = r.id /\ x.status = "accepted"
                /\ BoundUser(x) = calls'[p].userId
                /\ x.invited_email = r.invited_email
                /\ x.permission = r.permission
                /\ x.invitation_token = r.invitation_token]_vars

\* the invitation with permission full, the one created with invitedUserId u2,
\* redeemed by u3 and now bound to u3
C15_Witness ==
    \E p \in Calls : \E r \in appointment_assignee :
        /\ Done(p) /\ calls[p].status = 200 /\ calls[p].userId = "u3"
        /\ calls[p].token = r.invitation_token
        /\ r.permission = "full"
        /\ r.invited_email = EmailOf("u2")
        /\ r.status = "accepted" /\ r.user = "u3"

\* ------------------------------------------------- the two tables of a redeem
\* C16: a redeem tries appointment_assignee first and dashboard_access only
\* when no appointment row was hit. The token of a pending appointment grant
\* accepts that grant and leaves dashboard_access as it was, the token of a
\* pending dashboard grant accepts that grant and leaves appointment_assignee
\* as it was, and no step of a redeem changes more than one row.
C16_RedeemOneTable ==
    [][\A p \in Calls :
          calls'[p] # calls[p]
          => LET t == calls'[p].token
                 u == calls'[p].userId
                 all == appointment_assignee \cup dashboard_access
                 all2 == appointment_assignee' \cup dashboard_access'
             IN  /\ Cardinality(all \ all2) <= 1
                 /\ Cardinality(all2 \ all) <= 1
                 /\ (calls[p].pc = "idle" /\ t # NoToken /\ Truthy(u))
                    => IF \E r \in appointment_assignee :
                             r.invitation_token = t /\ r.status = "pending"
                       THEN /\ dashboard_access' = dashboard_access
                            /\ calls'[p].pc = "done"
                            /\ calls'[p].status = 200
                            /\ calls'[p].body = "Appointment invitation accepted"
                            /\ \E r \in appointment_assignee :
                                  /\ r.invitation_token = t
                                  /\ all \ all2 = {r}
                                  /\ all2 \ all = {[r EXCEPT !.status = "accepted",
                                                              !.user = u]}
                       ELSE /\ UNCHANGED tables
                            /\ calls'[p].pc = "dashboard"
                 /\ calls[p].pc = "dashboard"
                    => /\ appointment_assignee' = appointment_assignee
                       /\ calls'[p].pc = "done"
                       /\ IF \E r \in dashboard_access :
                                r.invitation_token = t /\ r.status = "pending"
                          THEN /\ calls'[p].status = 200
                               /\ calls'[p].body = "Dashboard invitation accepted"
                               /\ \E r \in dashboard_access :
                                     /\ r.invitation_token = t
                                     /\ all \ all2 = {r}
                                     /\ all2 \ all =
                                          {[r EXCEPT !.status = "accepted",
                                                     !.invited_user_id = u]}
                          ELSE UNCHANGED tables]_vars

\* a finished redeem of a dashboard token: the dashboard grant is accepted
\* while a pending appointment invitation is still pending
C16_Witness ==
    \E p \in Calls : \E d \in dashboard_access : \E r \in appointment_assignee :
        /\ Done(p) /\ calls[p].status = 200
        /\ calls[p].body = "Dashboard invitation accepted"
        /\ d.invitation_token = calls[p].token
        /\ d.status = "accepted" /\ d.invited_user_id = calls[p].userId
        /\ r.invitation_token # NoToken /\ r.status = "pending"

\* --------------------------------------------------------- table invariants
\* C17: within one table no two rows carry the same non-null token.
C17_TokensUnique ==
    /\ \A r1, r2 \in appointment_assignee :
          (r1.invitation_token # NoToken
              /\ r1.invitation_token = r2.invitation_token) => r1 = r2
    /\ \A r1, r2 \in dashboard_access :
          (r1.invitation_token # NoToken
              /\ r1.invitation_token = r2.invitation_token) => r1 = r2

\* two invitations to the same appointment, one of them redeemed, each with
\* its own token
C17_Witness ==
    \E r1, r2 \in appointment_assignee :
        /\ r1.id # r2.id
        /\ r1.invitation_token # NoToken /\ r2.invitation_token # NoToken
        /\ r1.invitation_token # r2.invitation_token
        /\ r1.status = "accepted"

\* C18: every grant row names its invitee, by user id or by email, and
\* references a stored resource, whichever handler inserted it.
C18_GrantNamesInvitee ==
    /\ \A r \in appointment_assignee :
          /\ (r.user # NULL \/ r.invited_email # NULL)
          /\ r.appointment \in AppointmentIds
    /\ \A r \in dashboard_access :
          /\ (r.invited_user_id # NULL \/ r.invited_email # NULL)
          /\ r.owner_user_id \in Users

\* ------------------------------------------------------------------ discard
\* C19: a discard of an existing grant by its inviter or invitee deletes
\* exactly that row, whatever its status, and leaves every other row as it
\* was; a row that is gone stays gone, and a redeem of a token whose row is
\* gone changes nothing and ends with the not-found response.
C19_DiscardIsFinal ==
    [][/\ \A s \in Users, id \in RowIdInputs :
             /\ ((\E r \in appointment_assignee : r.id = id /\ IsParty(s, r))
                   /\ DiscardAppointmentInvitation(s, id))
                => /\ appointment_assignee' =
                        {r \in appointment_assignee : r.id # id}
                   /\ dashboard_access' = dashboard_access
                   /\ response'.status = 200
             /\ ((\E r \in dashboard_access : r.id = id /\ IsParty(s, r))
                   /\ DiscardDashboardInvitation(s, id))
                => /\ dashboard_access' = {r \in dashboard_access : r.id # id}
                   /\ appointment_assignee' = appointment_assignee
                   /\ response'.status = 200
       /\ \A id \in 1 .. (nextId - 1) :
             (\A r \in appointment_assignee \cup dashboard_access : r.id # id)
             => \A r \in appointment_assignee' \cup dashboard_access' : r.id # id
       /\ \A t \in IssuedTokens : TokenRows(t) = {} => TokenRows(t)' = {}
       /\ \A p \in Calls :
             (/\ calls'[p] # calls[p]
              /\ Truthy(calls'[p].userId)
              /\ calls'[p].token \in IssuedTokens
              /\ TokenRows(calls'[p].token) = {})
             => /\ UNCHANGED tables
                /\ calls'[p].pc = "done"
                     => calls'[p].status = 404 /\ calls'[p].body = NotFoundBody]_vars

\* a grant that was redeemed and then discarded: the last handler answered
\* success, no row carries the token any more, another grant is still
\* stored, and a later redeem of the token got the not-found response
C19_Witness ==
    /\ response = Reply(200, "success")
    /\ appointment_assignee \cup dashboard_access # {}
    /\ \E t \in IssuedTokens :
          /\ TokenRows(t) = {}
          /\ Winners(t) # {}
          /\ \E p \in Calls : Done(p) /\ calls[p].token = t /\ calls[p].status = 404

\* ------------------------------------- PUT / PATCH / DELETE /api/appointments/[id]
\* the grant a1 can carry when a request arrives: none, or the invitation of
\* u2 by the owner u1, pending or redeemed, with each permission
InvitationOfU2(status, permission) ==
    [id |-> 1, appointment |-> "a1", user |-> "u2", user_type |-> NULL,
     invited_email |-> EmailOf("u2"), status |-> status, invitation_token |-> 1,
     permission |-> permission, invited_by |-> "u1"]
GrantTables ==
    {{}} \cup {{InvitationOfU2(st, pm)} :
                 st \in {"pending", "accepted"}, pm \in Permissions}

\* bodies of PUT: a complete appointment, one whose end is before its start,
\* one without a title
PutBodies ==
    {[title |-> "t1", start |-> 1, end |-> 2],
     [title |-> "t1", start |-> 2, end |-> 1],
     [title |-> NULL, start |-> 1, end |-> 2]}
\* bodies of PATCH (a field that is absent is undefined): a title, an end, nothing
PatchBodies == {[title |-> "t2"], [end |-> 1], <<>>}

\* WHERE id = $n AND user_id = $m
OwnRows(id, session) ==
    {a \in appointments : a.id = id /\ a.user_id = session}

AppointmentSpecInit ==
    /\ appointment_assignee \in GrantTables
    /\ dashboard_access = {}
    /\ nextId = Cardinality(appointment_assignee) + 1
    /\ nextToken = Cardinality(appointment_assignee) + 1
    /\ calls = [p \in Calls |-> IdleCall]
    /\ response = NoResponse
    /\ resolverIn = IdleResolver
    /\ resolverOut = Unset
    /\ AppointmentInit
    /\ ServiceInit

PutAppointment(session, id, body) ==
    /\ IF session = NULL
       THEN /\ apiResponse' = ApiReply(401, "Unauthorized")
            /\ UNCHANGED appointments
       ELSE LET hit == OwnRows(id, session) IN
            IF hit = {}
            THEN /\ apiResponse' = ApiReply(404, "Appointment not found or unauthorized")
                 /\ UNCHANGED appointments
            ELSE IF body.title = NULL   \* title TEXT NOT NULL
            THEN /\ apiResponse' = ApiReply(500, "not-null violation")
                 /\ UNCHANGED appointments
            ELSE /\ appointments' = (appointments \ hit) \cup
                      {[a EXCEPT !.title = body.title, !.start = body.start,
                                 !.end = body.end] : a \in hit}
                 /\ apiResponse' = ApiReply(200, "appointment")
    /\ UNCHANGED <<appointmentsCreated, lifecycleVars, resolverVars, serviceVars>>

\* the SET list built from the fields the body provides
Patched(a, body) ==
    [f \in DOMAIN a |-> IF f \in DOMAIN body THEN body[f] ELSE a[f]]

\* patient and category are UUID columns: the UPDATE throws on a value that
\* is no uuid, such as the empty string, whatever rows it selects
UuidColumnsOk(body) ==
    \A f \in DOMAIN body \cap {"patient", "category"} : body[f] # ""

PatchAppointment(session, id, body) ==
    /\ IF session = NULL
       THEN /\ apiResponse' = ApiReply(401, "Unauthorized")
            /\ UNCHANGED appointments
       ELSE IF DOMAIN body = {}
       THEN /\ apiResponse' = ApiReply(400, "No fields to update")
            /\ UNCHANGED appointments
       ELSE IF ~UuidColumnsOk(body)
       THEN /\ apiResponse' = ApiReply(500, "invalid input syntax for type uuid")
            /\ UNCHANGED appointments
       ELSE LET hit == OwnRows(id, session) IN
            IF hit = {}
            THEN /\ apiResponse' = ApiReply(404, "Appointment not found or unauthorized")
                 /\ UNCHANGED appointments
            ELSE /\ appointments' = (appointments \ hit) \cup
                      {Patched(a, body) : a \in hit}
                 /\ apiResponse' = ApiReply(200, "appointment")
    /\ UNCHANGED <<appointmentsCreated, lifecycleVars, resolverVars, serviceVars>>

\* DELETE FROM appointments ..., with ON DELETE CASCADE on
\* appointment_assignee.appointment
DeleteAppointment(session, id) ==
    /\ IF session = NULL
       THEN /\ apiResponse' = ApiReply(401, "Unauthorized")
            /\ UNCHANGED <<appointments, appointment_assignee>>
       ELSE LET hit == OwnRows(id, session) IN
            IF hit = {}
            THEN /\ apiResponse' = ApiReply(404, "Appointment not found or unauthorized")
                 /\ UNCHANGED <<appointments, appointment_assignee>>
            ELSE /\ appointments' = appointments \ hit
                 /\ appointment_assignee' =
                      {r \in appointment_assignee : r.appointment # id}
                 /\ apiResponse' = ApiReply(200, "success")
    /\ UNCHANGED <<dashboard_access, nextId, nextToken, calls, response,
                   resolverVars, appointmentsCreated, serviceVars>>

\* ---------------------------------------------------- POST /api/appointments
\* appointments a run creates
MaxCreated == 1
\* the sessions that create appointments: none, and a user owning none so far
CreatorSessions == {NULL, "u3"}

\* DEFAULT uuid_generate_v4(): the id of the n-th inserted appointment
NewAppointmentId(n) == CASE n = 1 -> "a3" [] n = 2 -> "a4" [] OTHER -> "a5"

\* bodies of POST are those of PUT; start and end stand for ISO dates, which
\* isValidDate accepts, and the titles are shorter than MAX_TITLE_LENGTH
CreateAppointment(session, body) ==
    /\ appointmentsCreated < MaxCreated
    /\ IF session = NULL
       THEN /\ apiResponse' = ApiReply(401, "Unauthorized")
            /\ UNCHANGED <<appointments, appointmentsCreated>>
       ELSE IF ~Truthy(body.title)
       THEN /\ apiResponse' = ApiReply(400,
                   "Missing required fields: title, start, and end are required")
            /\ UNCHANGED <<appointments, appointmentsCreated>>
       ELSE IF body.end <= body.start
       THEN /\ apiResponse' = ApiReply(400, "End date must be after start date")
            /\ UNCHANGED <<appointments, appointmentsCreated>>
       ELSE /\ appointments' = appointments \cup
                 {[id |-> NewAppointmentId(appointmentsCreated + 1),
                   user_id |-> session, title |-> body.title,
                   start |-> body.start, end |-> body.end]}
            /\ appointmentsCreated' = appointmentsCreated + 1
            /\ apiResponse' = ApiReply(200, "appointment")
    /\ UNCHANGED <<lifecycleVars, resolverVars, serviceVars>>

\* GET /api/appointments/[id]: the session check is commented out, so the
\* session takes no part in the answer
GetAppointment(session, id) ==
    /\ apiResponse' =
          IF ~isValidUUID(id) THEN ApiReply(400, "Invalid appointment ID format")
          ELSE IF \A a \in appointments : a.id # id
               THEN ApiReply(404, "Appointment not found")
               ELSE ApiReply(200, "appointment")
    /\ UNCHANGED <<appointments, appointmentsCreated, lifecycleVars, resolverVars, serviceVars>>

\* GET /api/appointments/[id]/permissions: the body of the answer is its
\* permission field
GetPermissions(session, id) ==
    /\ apiResponse' = ApiReply(200, "read")
    /\ UNCHANGED <<appointments, appointmentsCreated, lifecycleVars, resolverVars, serviceVars>>

AppointmentNext ==
    \/ \E s \in CreatorSessions, b \in PutBodies : CreateAppointment(s, b)
    \/ \E s \in Sessions, id \in AppointmentPathIds : GetAppointment(s, id)
    \/ \E s \in Sessions, id \in AppointmentPathIds : GetPermissions(s, id)
    \/ \E s \in Sessions, id \in AppointmentPathIds, b \in PutBodies :
          PutAppointment(s, id, b)
    \/ \E s \in Sessions, id \in AppointmentPathIds, b \in PatchBodies :
          PatchAppointment(s, id, b)
    \/ \E s \in Sessions, id \in AppointmentPathIds : DeleteAppointment(s, id)

AppointmentSpec == AppointmentSpecInit /\ [][AppointmentNext]_vars

\* the permission the resolver gives user u on the stored row a
ResolvedOn(a, u) ==
    getUserAppointmentPermission([id |-> a.id, user_id |-> a.user_id],
                                 AssigneesOf(a.id), u)

\* C20: for a signed-in non-owner the server decides as the resolver does:
\* with write or full a well-formed PUT or PATCH succeeds and changes the
\* appointment, with full a DELETE succeeds and removes it, and with read or
\* none (for DELETE also write) the request is refused and changes nothing.
C20_ServerAgreesWithResolver ==
    [][\A s \in Users : \A a \in appointments :
          LET perm == ResolvedOn(a, s)
              refused == /\ apiResponse'.status \in {401, 403, 404}
                         /\ UNCHANGED appointments
          IN  a.user_id # s
              => /\ \A b \in PutBodies :
                       (PutAppointment(s, a.id, b) /\ b.title # NULL)
                       => IF perm \in {"write", "full"}
                          THEN /\ apiResponse'.status = 200
                               /\ \E x \in appointments' :
                                     x.id = a.id /\ x.title = b.title
                          ELSE refused
                 /\ \A b \in PatchBodies :
                       (PatchAppointment(s, a.id, b) /\ DOMAIN b # {})
                       => IF perm \in {"write", "full"}
                          THEN /\ apiResponse'.status = 200
                               /\ \E x \in appointments' :
                                     x.id = a.id /\ x = Patched(a, b)
                          ELSE refused
                 /\ DeleteAppointment(s, a.id)
                       => IF perm = "full"
                          THEN /\ apiResponse'.status = 200
                               /\ \A x \in appointments' : x.id # a.id
                          ELSE refused]_vars

\* C21: a caller whose resolved permission on a stored appointment is none,
\* signed in or not, is never answered with the appointment (status 200) by
\* GET, PUT, PATCH or DELETE /api/appointments/[id], and changes nothing.
C21_NoneIsRefused ==
    [][\A s \in Sessions : \A a \in appointments :
          (/\ ResolvedOn(a, s) = NULL
           /\ \/ GetAppointment(s, a.id)
              \/ \E b \in PutBodies : PutAppointment(s, a.id, b)
              \/ \E b \in PatchBodies : PatchAppointment(s, a.id, b)
              \/ DeleteAppointment(s, a.id))
          => /\ apiResponse'.status # 200
             /\ UNCHANGED appointments]_vars

\* C22: GET /api/appointments/[id]/permissions answers with the permission
\* the resolver gives the requesting user on that appointment: owner, full,
\* write or read, and none of these when the resolver gives none.
C22_PermissionsEndpointResolves ==
    [][\A s \in Sessions : \A a \in appointments :
          GetPermissions(s, a.id)
          => IF ResolvedOn(a, s) = NULL
             THEN apiResponse'.body \notin Permissions \cup {"owner"}
             ELSE apiResponse'.body = ResolvedOn(a, s)]_vars

\* C23: every stored appointment ends strictly after it starts, after any
\* sequence of POST, PUT and PATCH by its owner.
C23_EndAfterStart ==
    \A a \in appointments : a.end > a.start

\* ------------------------------------------------------------ checkRateLimit
\* Map.set(key, record)
MapSet(store, key, record) ==
    [k \in DOMAIN store \cup {key} |-> IF k = key THEN record ELSE store[k]]

\* mutant: the test of the count against maxRequests is dropped
checkRateLimitUncapped(store, t, identifier, maxRequests, windowMs) ==
    IF identifier \notin DOMAIN store \/ t > store[identifier].resetTime
    THEN [store |-> MapSet(store, identifier,
                           [count |-> 1, resetTime |-> t + windowMs]),
          result |-> [allowed |-> TRUE, remaining |-> maxRequests - 1,
                      resetTime |-> t + windowMs]]
    ELSE [store |-> MapSet(store, identifier,
                           [store[identifier] EXCEPT !.count = @ + 1]),
          result |-> [allowed |-> TRUE,
                      remaining |-> maxRequests - (store[identifier].count + 1),
                      resetTime |-> store[identifier].resetTime]]

\* checkRateLimit(identifier, maxRequests, windowMs) at time t: the Map after
\* the call and the returned object
checkRateLimit(store, t, identifier, maxRequests, windowMs) ==
    IF identifier \notin DOMAIN store \/ t > store[identifier].resetTime
    THEN [store |-> MapSet(store, identifier,
                           [count |-> 1, resetTime |-> t + windowMs]),
          result |-> [allowed |-> TRUE, remaining |-> maxRequests - 1,
                      resetTime |-> t + windowMs]]
    ELSE IF store[identifier].count >= maxRequests
    THEN [store |-> store,
          result |-> [allowed |-> FALSE, remaining |-> 0,
                      resetTime |-> store[identifier].resetTime]]
    ELSE [store |-> MapSet(store, identifier,
                           [store[identifier] EXCEPT !.count = @ + 1]),
          result |-> [allowed |-> TRUE,
                      remaining |-> maxRequests - (store[identifier].count + 1),
                      resetTime |-> store[identifier].resetTime]]

\* --------------------------------------------------- POST /api/auth/register
\* RATE_LIMITS.REGISTER and the password lengths of VALIDATION
REGISTER_maxRequests == 3
REGISTER_windowMs == 3600000
MIN_PASSWORD_LENGTH == 6
MAX_PASSWORD_LENGTH == 128

\* emails are strings of characters, passwords are given by their length;
\* the empty email and the password of length 0 are the missing fields
Ann == <<"a", "@", "b", ".", "c">>
Bob == <<"b", "@", "b", ".", "c">>
NoDot == <<"a", "@", "b">>
Credentials(email, password) == [email |-> email, password |-> password]
RegisterBodies ==
    {Credentials(Ann, 8), Credentials(Bob, 8), Credentials(NoDot, 8),
     Credentials(Ann, 5), Credentials(<<>>, 8)}

\* getClientIP(req) and the identifier built from it
ClientIPs == {"ipA", "ipB"}
RegisterKey(ip) == IF ip = "ipA" THEN "register:ipA" ELSE "register:ipB"

\* /^[^\s@]+@[^\s@]+\.[^\s@]+$/ : no white space, one @ that is not the
\* first character, and after it a dot with a character on either side
isValidEmail(email) ==
    /\ \A i \in 1 .. Len(email) : email[i] # " "
    /\ \E i \in 2 .. Len(email) :
          /\ email[i] = "@"
          /\ \A k \in 1 .. Len(email) : email[k] = "@" => k = i
          /\ \E j \in (i + 2) .. (Len(email) - 1) : email[j] = "."

validatePassword(length) ==
    ~(length < MIN_PASSWORD_LENGTH) /\ ~(length > MAX_PASSWORD_LENGTH)

EndRegistration(r, status) ==
    [registrations EXCEPT ![r].pc = "done", ![r].status = status]

LogEntry(identifier, t, result) ==
    [identifier |-> identifier, time |-> t, allowed |-> result.allowed,
     remaining |-> result.remaining, resetTime |-> result.resetTime]

\* the request arrives: checkRateLimit counts it before the body is read; a
\* refused request is answered at once, an allowed one awaits req.json()
\* (the requests are interchangeable, so they take the slots of
\* registrations in order)
RegisterCount(r, ip, body) ==
    /\ registrations[r].pc = "idle"
    /\ \A q \in Registrations : q < r => registrations[q].pc # "idle"
    /\ LET rateLimit == checkRateLimit(rateLimitStore, now, RegisterKey(ip),
                                       REGISTER_maxRequests, REGISTER_windowMs)
           request == [registrations EXCEPT ![r].email = body.email,
                                            ![r].password = body.password]
       IN  /\ rateLimitStore' = rateLimit.store
           /\ rateLimitLog' = Append(rateLimitLog,
                                     LogEntry(RegisterKey(ip), now, rateLimit.result))
           /\ registrations' =
                IF ~rateLimit.result.allowed
                THEN [request EXCEPT ![r].pc = "done", ![r].status = 429]
                ELSE [request EXCEPT ![r].pc = "counted"]
    /\ UNCHANGED <<now, users, coreVars, clientVars>>

\* the body is read and validated
RegisterValidate(r) ==
    /\ registrations[r].pc = "counted"
    /\ LET body == registrations[r] IN
         registrations' =
            IF body.email = <<>> \/ body.password = 0
            THEN EndRegistration(r, 400)
            ELSE IF ~isValidEmail(body.email)
            THEN EndRegistration(r, 400)
            ELSE IF ~validatePassword(body.password)
            THEN EndRegistration(r, 400)
            ELSE [registrations EXCEPT ![r].pc = "lookup"]
    /\ UNCHANGED <<users, rateVars, coreVars, clientVars>>

\* getUserByEmail(email)
RegisterLookup(r) ==
    /\ registrations[r].pc = "lookup"
    /\ registrations' =
          IF \E u \in users : u.email = registrations[r].email
          THEN EndRegistration(r, 409)
          ELSE [registrations EXCEPT ![r].pc = "insert"]
    /\ UNCHANGED <<users, rateVars, coreVars, clientVars>>

\* hashPassword and createUser(email, passwordHash, verificationToken): the
\* row is stored and the handler awaits the verification mail
RegisterInsert(r) ==
    /\ registrations[r].pc = "insert"
    /\ users' = users \cup
          {[id |-> Cardinality(users) + 1, email |-> registrations[r].email]}
    /\ registrations' = [registrations EXCEPT ![r].pc = "mail"]
    /\ UNCHANGED <<rateVars, coreVars, clientVars>>

\* sendInvitationEmail returns or throws: the response is the same
RegisterAnswer(r, emailOk) ==
    /\ registrations[r].pc = "mail"
    /\ registrations' = EndRegistration(r, 200)
    /\ UNCHANGED <<users, rateVars, coreVars, clientVars>>

\* the Map when the requests arrive: empty, or ipA at its limit
RegisterStores ==
    {EmptyMap,
     MapSet(EmptyMap, RegisterKey("ipA"),
            [count |-> REGISTER_maxRequests, resetTime |-> REGISTER_windowMs])}

RegisterSpecInit ==
    /\ LifecycleInit
    /\ AppointmentInit
    /\ resolverIn = IdleResolver
    /\ resolverOut = Unset
    /\ RegisterInit
    /\ ClientInit
    /\ rateLimitStore \in RegisterStores
    /\ now = 0
    /\ rateLimitLog = <<>>

RegisterNext ==
    \/ \E r \in Registrations, ip \in ClientIPs, b \in RegisterBodies :
          RegisterCount(r, ip, b)
    \/ \E r \in Registrations : RegisterValidate(r)
    \/ \E r \in Registrations : RegisterLookup(r)
    \/ \E r \in Registrations : RegisterInsert(r)
    \/ \E r \in Registrations, ok \in BOOLEAN : RegisterAnswer(r, ok)

RegisterSpec == RegisterSpecInit /\ [][RegisterNext]_vars

\* C24: no two rows of users carry the same email, under every interleaving
\* of register requests.
C24_EmailsUnique ==
    \A u, v \in users : u.email = v.email => u = v

\* ------------------------------------- POST /api/invitations/accept, sessions
\* an invitation to appointment a1 and one to the dashboard of u1, both
\* created by u1 for e2 and still pending
PendingAssignee ==
    [id |-> 1, appointment |-> "a1", user |-> NULL, user_type |-> NULL,
     invited_email |-> "e2", status |-> "pending", invitation_token |-> 1,
     permission |-> "write", invited_by |-> "u1"]
PendingDashboard ==
    [id |-> 2, owner_user_id |-> "u1", invited_user_id |-> NULL,
     invited_email |-> "e2", status |-> "pending", invitation_token |-> 2,
     permission |-> "write", invited_by |-> "u1"]

\* the session cookie of a redeem request: none, the invitee, another user
AcceptSessionInputs == {NULL, "u2", "u3"}

\* the request with its session: the handler calls no getSessionUser(), so
\* the session only travels with the request
AcceptInvitation(p, session, token, userId) ==
    /\ RedeemFirstUpdate(p, token, userId)
    /\ acceptSessions' = [acceptSessions EXCEPT ![p] = session]
    /\ UNCHANGED <<dashboard_access, nextId, nextToken, response, resolverVars,
                   appointmentVars, rateVars, registerVars, accessReply,
                   dedupeIn, dedupeOut, dialog, sending, posting>>

AcceptSpecInit ==
    /\ appointment_assignee = {PendingAssignee}
    /\ dashboard_access = {PendingDashboard}
    /\ nextId = 3
    /\ nextToken = 3
    /\ calls = [p \in Calls |-> IdleCall]
    /\ response = NoResponse
    /\ AppointmentInit
    /\ ServiceInit
    /\ resolverIn = IdleResolver
    /\ resolverOut = Unset

AcceptNext ==
    \/ \E p \in Calls, s \in AcceptSessionInputs, b \in RedeemBodies :
          AcceptInvitation(p, s, b[1], b[2])
    \/ \E p \in Calls : RedeemDashboard(p)

AcceptSpec == AcceptSpecInit /\ [][AcceptNext]_vars

\* C25: a redeem request without a session is refused with 401 before it
\* touches a grant, and every accepted grant is bound to the session user of
\* a request that presented its token.
C25_RedeemBindsSessionUser ==
    /\ \A p \in Calls :
          (calls[p].pc # "idle" /\ acceptSessions[p] = NULL)
              => (calls[p].pc = "done" /\ calls[p].status = 401)
    /\ \A r \in appointment_assignee \cup dashboard_access :
          r.status = "accepted"
              => \E p \in Calls :
                    /\ acceptSessions[p] \in Users
                    /\ calls[p].token = r.invitation_token
                    /\ BoundUser(r) = acceptSessions[p]

\* ------------------------------------------------ GET /api/dashboard-access
\* rows of dashboard_access the lifecycle leaves behind: invitations of u1 to
\* e2, pending (with and without a preset user) and redeemed by u2 or by u3
AccessRow(id, invitedUserId, status) ==
    [id |-> id, owner_user_id |-> "u1", invited_user_id |-> invitedUserId,
     invited_email |-> "e2", status |-> status, invitation_token |-> id,
     permission |-> "write", invited_by |-> "u1"]
AccessRows ==
    {AccessRow(1, NULL, "pending"), AccessRow(2, "u2", "pending"),
     AccessRow(3, "u2", "accepted"), AccessRow(4, "u3", "accepted")}

\* searchParams.get("status"): absent, empty, or a status
StatusParams == {NULL, "", "pending", "accepted"}

\* the WHERE clause as PostgreSQL parses it: AND binds tighter than OR, so the
\* appended status test belongs to the invited_email test alone
AccessSelected(r, userId, email, status) ==
    \/ r.owner_user_id = userId
    \/ r.invited_user_id = userId
    \/ IF Truthy(status)
       THEN r.invited_email = email /\ r.status = status
       ELSE r.invited_email = email

AccessReply(session, status, code, rows) ==
    [session |-> session, status |-> status, code |-> code, rows |-> rows]

ListDashboardAccess(session, status) ==
    /\ accessReply' =
         IF session = NULL THEN AccessReply(session, status, 401, <<>>)
         \* ORDER BY created_at DESC
         ELSE AccessReply(session, status, 200,
                  NewestFirst({r \in dashboard_access :
                      AccessSelected(r, session, EmailOf(session), status)}))
    /\ UNCHANGED <<coreVars, rateVars, registerVars, acceptSessions, dedupeIn,
                   dedupeOut, dialog, sending, posting>>

AccessSpecInit ==
    /\ appointment_assignee = {}
    /\ dashboard_access \in SUBSET AccessRows
    /\ nextId = 5
    /\ nextToken = 5
    /\ calls = [p \in Calls |-> IdleCall]
    /\ response = NoResponse
    /\ AppointmentInit
    /\ ServiceInit
    /\ resolverIn = IdleResolver
    /\ resolverOut = Unset

AccessNext ==
    \E s \in Sessions, status \in StatusParams : ListDashboardAccess(s, status)

AccessSpec == AccessSpecInit /\ [][AccessNext]_vars

\* C26: a list request with status parameter s is answered with rows of
\* status s only, each naming the caller as owner, invited user or invited
\* email.
C26_ListFiltersByStatus ==
    (accessReply.code = 200 /\ Truthy(accessReply.status))
        => \A i \in 1 .. Len(accessReply.rows) :
              LET r == accessReply.rows[i] IN
              /\ r.status = accessReply.status
              /\ \/ r.owner_user_id = accessReply.session
                 \/ r.invited_user_id = accessReply.session
                 \/ r.invited_email = EmailOf(accessReply.session)

\* ------------------------------------------------- checkRateLimit over time
\* the limit and the window length the callers pass, scaled down
MaxRequests == 2
WindowMs == 2
\* the clock stops here, and so many calls are made
MaxTime == 5
MaxChecks == 5
\* identifiers as the login route builds them
RateIdentifiers == {"login:ipA", "login:ipB"}

\* one call of checkRateLimit at the current time
CheckRateLimit(identifier) ==
    /\ Len(rateLimitLog) < MaxChecks
    /\ LET out == checkRateLimit(rateLimitStore, now, identifier,
                                 MaxRequests, WindowMs) IN
         /\ rateLimitStore' = out.store
         /\ rateLimitLog' = Append(rateLimitLog,
                                   LogEntry(identifier, now, out.result))
    /\ UNCHANGED <<now, registerVars, coreVars, clientVars>>

\* time passes
Tick ==
    /\ now < MaxTime
    /\ now' = now + 1
    /\ UNCHANGED <<rateLimitStore, rateLimitLog, registerVars, coreVars, clientVars>>

\* the setInterval callback: every expired entry is deleted
Cleanup ==
    /\ \E k \in DOMAIN rateLimitStore : now > rateLimitStore[k].resetTime
    /\ rateLimitStore' =
         [k \in {x \in DOMAIN rateLimitStore :
                    ~(now > rateLimitStore[x].resetTime)} |-> rateLimitStore[k]]
    /\ UNCHANGED <<now, rateLimitLog, registerVars, coreVars, clientVars>>

RateLimitNext ==
    \/ \E k \in RateIdentifiers : CheckRateLimit(k)
    \/ Tick
    \/ Cleanup

RateLimitSpec == Init /\ [][RateLimitNext]_vars

\* the calls of the log that were allowed for identifier k in the window
\* ending at reset
AllowedIn(k, reset) ==
    {i \in 1 .. Len(rateLimitLog) :
        /\ rateLimitLog[i].identifier = k
        /\ rateLimitLog[i].allowed
        /\ rateLimitLog[i].resetTime = reset}

\* the step is a call of checkRateLimit
IsCheck == Len(rateLimitLog') = Len(rateLimitLog) + 1
LastCheck == rateLimitLog[Len(rateLimitLog)]

\* C27: per identifier at most maxRequests calls are allowed between a
\* window's start and its resetTime; a denied call returns remaining 0 and
\* leaves the stored record as it is; the first call after resetTime is
\* allowed and opens a window with count 1; a call changes no record of
\* another identifier.
C27_FixedWindowLimit ==
    /\ [](\A i \in 1 .. Len(rateLimitLog) :
            LET e == rateLimitLog[i] IN
            /\ e.resetTime - WindowMs <= e.time
            /\ e.time <= e.resetTime
            /\ e.allowed =>
                 Cardinality(AllowedIn(e.identifier, e.resetTime))
                     <= MaxRequests)
    /\ [][IsCheck =>
            LET e == LastCheck'
                k == e.identifier
                known == k \in DOMAIN rateLimitStore IN
            /\ ~e.allowed =>
                 /\ e.remaining = 0
                 /\ rateLimitStore' = rateLimitStore
            /\ (known /\ now > rateLimitStore[k].resetTime) =>
                 /\ e.allowed
                 /\ rateLimitStore'[k] = [count |-> 1, resetTime |-> now + WindowMs]
            /\ (known /\ now <= rateLimitStore[k].resetTime
                      /\ rateLimitStore[k].count >= MaxRequests) =>
                 ~e.allowed
            /\ \A o \in DOMAIN rateLimitStore \ {k} :
                 /\ o \in DOMAIN rateLimitStore'
                 /\ rateLimitStore'[o] = rateLimitStore[o]]_vars

\* a window was used up, a call in it was denied, and a later call opened
\* the next window while the other identifier had a record of its own
C27_Witness ==
    \E i, j, l \in 1 .. Len(rateLimitLog) :
        /\ i < j /\ j < l
        /\ rateLimitLog[i].identifier = rateLimitLog[j].identifier
        /\ rateLimitLog[j].identifier = rateLimitLog[l].identifier
        /\ rateLimitLog[i].allowed
        /\ rateLimitLog[i].remaining = 0
        /\ ~rateLimitLog[j].allowed
        /\ rateLimitLog[l].allowed
        /\ rateLimitLog[l].resetTime > rateLimitLog[j].resetTime
        /\ Cardinality(DOMAIN rateLimitStore) = 2

\* ----------------------------------------------------------- dedupeAssignees
\* longest assignee list handed to dedupeAssignees
MaxDedupe == 3

\* user and invited_email are strings of characters here, the empty string
\* standing for null as well (the key is built from `x || ''`)
NoString == <<>>
\* the grants of the list: every status and permission for a user grant and
\* for an email grant of appointment a1, and the strongest of each for a2
Grant(appointment, user, email, status, permission) ==
    [appointment |-> appointment, user |-> user, invited_email |-> email,
     status |-> status, permission |-> permission]
GrantInputs ==
    {Grant("a1", k[1], k[2], s, p) :
        k \in {<<<<"u">>, NoString>>, <<NoString, <<"e">>>>},
        s \in Statuses, p \in Permissions}
    \cup {Grant("a2", <<"u">>, NoString, "accepted", "full"),
          Grant("a2", NoString, <<"e">>, "accepted", "full")}

\* the rows as fetched: each with its own id, here its position
WithIds(grants) ==
    [i \in 1 .. Len(grants) |->
        [id |-> i, appointment |-> grants[i].appointment,
         user |-> grants[i].user, invited_email |-> grants[i].invited_email,
         status |-> grants[i].status, permission |-> grants[i].permission]]
DedupeInputs ==
    {WithIds(g) : g \in UNION {[1 .. n -> GrantInputs] : n \in 0 .. MaxDedupe}}

\* `${ass.user || ''}|${ass.invited_email || ''}`
DedupeKey(ass) == ass.user \o <<"|">> \o ass.invited_email

\* statusOrder and permOrder, 0 for a value outside them
StatusOrder(status) ==
    CASE status = "accepted" -> 2 [] status = "pending" -> 1 [] OTHER -> 0
PermOrder(permission) ==
    CASE permission = "full" -> 3 [] permission = "write" -> 2
      [] permission = "read" -> 1 [] OTHER -> 0

\* mutant: a grant of equal rank replaces the one kept so far
ReplacesOnTie(ass, prev) ==
    \/ StatusOrder(ass.status) > StatusOrder(prev.status)
    \/ /\ StatusOrder(ass.status) = StatusOrder(prev.status)
       /\ PermOrder(ass.permission) >= PermOrder(prev.permission)

\* the test under which ass replaces prev in the Map
Replaces(ass, prev) ==
    \/ StatusOrder(ass.status) > StatusOrder(prev.status)
    \/ /\ StatusOrder(ass.status) = StatusOrder(prev.status)
       /\ PermOrder(ass.permission) > PermOrder(prev.permission)

\* the Map as the sequence of its entries in insertion order; Map.set on a
\* present key replaces the value in place
DedupeSet(map, key, ass) ==
    IF \E i \in 1 .. Len(map) : map[i].key = key
    THEN [i \in 1 .. Len(map) |->
             IF map[i].key = key THEN [key |-> key, value |-> ass] ELSE map[i]]
    ELSE Append(map, [key |-> key, value |-> ass])
DedupeGet(map, key) ==
    map[CHOOSE i \in 1 .. Len(map) : map[i].key = key].value

\* the for loop from position i
RECURSIVE DedupeLoop(_, _, _)
DedupeLoop(filteredAssignees, i, dedupedMap) ==
    IF i > Len(filteredAssignees) THEN dedupedMap
    ELSE LET ass == filteredAssignees[i]
             key == DedupeKey(ass)
         IN  IF ~\E j \in 1 .. Len(dedupedMap) : dedupedMap[j].key = key
             THEN DedupeLoop(filteredAssignees, i + 1,
                             DedupeSet(dedupedMap, key, ass))
             ELSE IF Replaces(ass, DedupeGet(dedupedMap, key))
             THEN DedupeLoop(filteredAssignees, i + 1,
                             DedupeSet(dedupedMap, key, ass))
             ELSE DedupeLoop(filteredAssignees, i + 1, dedupedMap)

SameAppointment(ass, appointmentId) == ass.appointment = appointmentId

dedupeAssignees(assignees, appointmentId) ==
    LET filteredAssignees ==
            SelectSeq(assignees, LAMBDA ass : SameAppointment(ass, appointmentId))
        dedupedMap == DedupeLoop(filteredAssignees, 1, <<>>)
    IN  [i \in 1 .. Len(dedupedMap) |-> dedupedMap[i].value]

Dedupe ==
    /\ ~dedupeOut.done
    /\ dedupeOut' =
         [done |-> TRUE,
          assignees |-> dedupeAssignees(dedupeIn.assignees, dedupeIn.appointmentId)]
    /\ UNCHANGED <<dedupeIn, coreVars, rateVars, registerVars, acceptSessions,
                   accessReply, dialog, sending, posting>>

DedupeSpecInit ==
    /\ LifecycleInit
    /\ AppointmentInit
    /\ RateInit
    /\ RegisterInit
    /\ resolverIn = IdleResolver
    /\ resolverOut = Unset
    /\ acceptSessions = [p \in Calls |-> Unset]
    /\ accessReply = NoAccessReply
    /\ dialog = IdleDialog
    /\ sending = {}
    /\ posting = <<>>
    /\ dedupeIn \in [assignees : DedupeInputs, appointmentId : AppointmentIds]
    /\ dedupeOut = NoDedupe

DedupeNext == Dedupe

DedupeSpec == DedupeSpecInit /\ [][DedupeNext]_vars

\* the grants of the input that belong to the appointment asked for
OwnGrants ==
    {dedupeIn.assignees[i] : i \in
        {j \in 1 .. Len(dedupeIn.assignees) :
            dedupeIn.assignees[j].appointment = dedupeIn.appointmentId}}
SameInvitee(g, h) == g.user = h.user /\ g.invited_email = h.invited_email
\* g ranks at least as high as h: status first, permission second
RanksAtLeast(g, h) ==
    \/ StatusOrder(g.status) > StatusOrder(h.status)
    \/ /\ StatusOrder(g.status) = StatusOrder(h.status)
       /\ PermOrder(g.permission) >= PermOrder(h.permission)

\* C28: the result holds exactly one grant for every (user, invited_email)
\* pair among the grants of the appointment, that grant is one of highest
\* rank for its pair (status rank, then permission rank) and the earliest of
\* those in the input, and no grant of another appointment appears.
C28_DedupeKeepsBest ==
    dedupeOut.done =>
        LET out == dedupeOut.assignees
            kept == {out[i] : i \in 1 .. Len(out)} IN
        /\ kept \subseteq OwnGrants
        /\ \A i, j \in 1 .. Len(out) : SameInvitee(out[i], out[j]) => i = j
        /\ \A g \in OwnGrants : \E k \in kept :
              /\ SameInvitee(k, g)
              /\ RanksAtLeast(k, g)
              /\ RanksAtLeast(g, k) => k.id <= g.id

\* a list with two grants of one invitee tied in rank, a later stronger
\* grant of another invitee pair, and a grant of the other appointment
C28_Witness ==
    /\ dedupeOut.done
    /\ Len(dedupeIn.assignees) = 3
    /\ dedupeIn.appointmentId = "a1"
    /\ dedupeIn.assignees[1].appointment = "a1"
    /\ dedupeIn.assignees[2].appointment = "a1"
    /\ dedupeIn.assignees[3].appointment = "a2"
    /\ SameInvitee(dedupeIn.assignees[1], dedupeIn.assignees[2])
    /\ SameInvitee(dedupeIn.assignees[1], dedupeIn.assignees[3])
    /\ RanksAtLeast(dedupeIn.assignees[1], dedupeIn.assignees[2])
    /\ RanksAtLeast(dedupeIn.assignees[2], dedupeIn.assignees[1])
    /\ dedupeOut.assignees = <<dedupeIn.assignees[1]>>

\* ---------------------------------------------------------- the edit dialog
\* the appointment the dialog edits
EditedAppointment == "a1"
\* who edits: the owner, or a user owning nothing
DialogSessions == {"u1", "u3"}
\* entries the user adds in one dialog
MaxAdded == 1
\* the entry handleAddAssignee appends for a patient or a relative: user
\* null, and no invited_email, status or permission; the id "temp-" +
\* Date.now() of the n-th added entry is the number -n, which no stored row
\* has as its id
AddedEntry(user_type, n) ==
    [id |-> 0 - n, user |-> NULL, user_type |-> user_type,
     invited_email |-> NULL, status |-> NULL, permission |-> NULL]

\* `${a.user || ''}|${a.invited_email || ''}`
MergeKey(a) == <<OrElse(a.user, ""), "|", OrElse(a.invited_email, "")>>

\* the prefill loop of the opening effect: the first row of every key
RECURSIVE PrefillLoop(_, _, _)
PrefillLoop(assigneesList, i, dedupedMap) ==
    IF i > Len(assigneesList) THEN dedupedMap
    ELSE LET a == assigneesList[i]
             key == MergeKey(a)
         IN  IF ~\E j \in 1 .. Len(dedupedMap) : dedupedMap[j].key = key
             THEN PrefillLoop(assigneesList, i + 1, DedupeSet(dedupedMap, key, a))
             ELSE PrefillLoop(assigneesList, i + 1, dedupedMap)
Prefilled(assigneesList) ==
    LET dedupedMap == PrefillLoop(assigneesList, 1, <<>>)
    IN  [i \in 1 .. Len(dedupedMap) |-> dedupedMap[i].value]

\* the merge loop of the save: the same Map and the same replacement test
\* as dedupeAssignees
RECURSIVE MergeLoop(_, _, _)
MergeLoop(allAssignees, i, dedupedMap) ==
    IF i > Len(allAssignees) THEN dedupedMap
    ELSE LET a == allAssignees[i]
             key == MergeKey(a)
         IN  IF ~\E j \in 1 .. Len(dedupedMap) : dedupedMap[j].key = key
             THEN MergeLoop(allAssignees, i + 1, DedupeSet(dedupedMap, key, a))
             ELSE IF Replaces(a, DedupeGet(dedupedMap, key))
             THEN MergeLoop(allAssignees, i + 1, DedupeSet(dedupedMap, key, a))
             ELSE MergeLoop(allAssignees, i + 1, dedupedMap)
MergedAssignees(existingAssignees, assignees) ==
    LET dedupedMap == MergeLoop(existingAssignees \o assignees, 1, <<>>)
    IN  [i \in 1 .. Len(dedupedMap) |-> dedupedMap[i].value]

\* the assignees array of the POST body: the fields the dialog sends (the
\* merged list has one entry per key already, so uniqueAssignees is that list)
PostedAssignees(uniqueAssignees) ==
    [i \in 1 .. Len(uniqueAssignees) |->
        LET a == uniqueAssignees[i] IN
        Assignee(a.user, a.user_type, OrElse(a.invited_email, NULL),
                 IF a.status # NULL THEN a.status ELSE "pending",
                 IF a.permission # NULL THEN a.permission ELSE "read")]

\* the pending invitations of the edited appointment, by token
PendingTokens ==
    {r.invitation_token : r \in
        {x \in appointment_assignee :
            /\ x.appointment = EditedAppointment
            /\ x.status = "pending"
            /\ x.invitation_token # NoToken}}

\* frame of a dialog step that calls no handler with an effect
DialogFrame ==
    UNCHANGED <<coreVars, rateVars, registerVars, viewVars, sending, posting>>

\* the columns of an appointment the PATCH body may carry besides the title
OptionalColumns == {"notes", "patient", "category", "location", "status"}
\* the edited appointment as stored: with every optional column set, with
\* notes NULL, and as POST /api/appointments stores a body of title, start
\* and end only
DialogAppointment(notes, patient, category, location, status) ==
    [id |-> EditedAppointment, user_id |-> OwnerOf(EditedAppointment),
     title |-> "t0", start |-> 1, end |-> 2, notes |-> notes,
     patient |-> patient, category |-> category, location |-> location,
     status |-> status]
DialogAppointments ==
    {DialogAppointment("n0", "p1", "c1", "l0", "pending"),
     DialogAppointment(NULL, "p1", "c1", "l0", "pending"),
     DialogAppointment(NULL, NULL, NULL, NULL, NULL)}

\* updates of handleSave without updated_at: the title when the user changed
\* it, and every optional column stored as NULL, whose form field ("", or
\* "pending" for the status) differs from null
DialogUpdates(appointment, changed) ==
    [f \in (IF changed THEN {"title"} ELSE {}) \cup
            {c \in OptionalColumns : appointment[c] = NULL} |->
        CASE f = "title" -> "t2"
          [] f = "status" -> "pending"
          [] OTHER -> ""]

\* the dialog opens on the appointment: setOpen(true), and the effect goes on
\* to fetch the assignees
DialogOpen(session) ==
    /\ dialog.pc = "idle"
    /\ dialog' = [dialog EXCEPT
                     !.pc = "open",
                     !.session = session,
                     !.appointment =
                         CHOOSE a \in appointments : a.id = EditedAppointment,
                     !.prefill = [pc |-> "fetch", assignees |-> <<>>]]
    /\ DialogFrame

\* GET .../assignees of the opening effect is served
DialogPrefillFetch ==
    /\ dialog.prefill.pc = "fetch"
    /\ dialog' = [dialog EXCEPT
                     !.prefill = [pc |-> "set",
                                  assignees |->
                                      Prefilled(AssigneesOf(EditedAppointment))]]
    /\ DialogFrame

\* its answer arrives: setAssignees with the first row of every key, in
\* place of the list as it is by then
DialogPrefillSet ==
    /\ dialog.prefill.pc = "set"
    /\ dialog' = [dialog EXCEPT
                     !.prefill = [pc |-> "done", assignees |-> <<>>],
                     !.assignees = dialog.prefill.assignees]
    /\ DialogFrame

\* the dialog is on the screen: from its opening until a save has succeeded
\* (setOpen(false) and the reload of the page)
DialogShown == dialog.pc \notin {"idle", "done"}

\* handleAddAssignee with the id of a patient or of a relative, at any time
\* while the dialog is shown (no entry of the list has that id as its user,
\* so the entry is appended)
DialogAdd(user_type) ==
    /\ DialogShown
    /\ dialog.added < MaxAdded
    /\ dialog' = [dialog EXCEPT
                     !.assignees =
                         Append(@, AddedEntry(user_type, dialog.added + 1)),
                     !.added = @ + 1]
    /\ DialogFrame

\* handleRemoveAssignee(a.user, a.id) of the i-th entry shown, at any time
\* while the dialog is shown: every entry has an id, so the entries of that
\* id are filtered out
DialogRemove(i) ==
    /\ DialogShown
    /\ i \in 1 .. Len(dialog.assignees)
    /\ dialog' = [dialog EXCEPT
                     !.assignees =
                         SelectSeq(@, LAMBDA a : a.id # dialog.assignees[i].id)]
    /\ DialogFrame

\* the click on the save button, for the first time or again after a failed
\* save (the button is disabled while a save runs: loading): handleSave
\* builds the updates, keeps the list of the render it was called in, and
\* sends PATCH /api/appointments/[id]
DialogSave(changed) ==
    /\ dialog.pc \in {"open", "failed"}
    /\ dialog' = [dialog EXCEPT
                     !.pc = "patch",
                     !.updates = DialogUpdates(dialog.appointment, changed),
                     !.saved = dialog.assignees,
                     !.pending = PendingTokens]
    /\ DialogFrame

\* the PATCH is served and answered (updated_at, which is always sent, is no
\* field the handler reads); a response that is not ok throws and ends the
\* save
DialogPatch ==
    /\ dialog.pc = "patch"
    /\ LET body == dialog.updates
           hit == OwnRows(EditedAppointment, dialog.session) IN
         IF DOMAIN body = {}
         THEN /\ apiResponse' = ApiReply(400, "No fields to update")
              /\ dialog' = [dialog EXCEPT !.pc = "failed"]
              /\ UNCHANGED appointments
         ELSE IF ~UuidColumnsOk(body)
         THEN /\ apiResponse' = ApiReply(500, "invalid input syntax for type uuid")
              /\ dialog' = [dialog EXCEPT !.pc = "failed"]
              /\ UNCHANGED appointments
         ELSE IF hit = {}
         THEN /\ apiResponse' = ApiReply(404, "Appointment not found or unauthorized")
              /\ dialog' = [dialog EXCEPT !.pc = "failed"]
              /\ UNCHANGED appointments
         ELSE /\ appointments' = (appointments \ hit) \cup
                   {Patched(a, body) : a \in hit}
              /\ apiResponse' = ApiReply(200, "appointment")
              /\ dialog' = [dialog EXCEPT !.pc = "fetch"]
    /\ UNCHANGED <<appointmentsCreated, lifecycleVars, resolverVars, rateVars,
                   registerVars, viewVars, sending, posting>>

\* GET /api/appointments/[id]/assignees and the merge with the save's list
DialogFetch ==
    /\ dialog.pc = "fetch"
    /\ dialog' = [dialog EXCEPT
                     !.pc = "me",
                     !.merged = MergedAssignees(AssigneesOf(EditedAppointment),
                                                dialog.saved)]
    /\ DialogFrame

\* GET /api/auth/me and the isOwner test
DialogMe ==
    /\ dialog.pc = "me"
    /\ dialog' = [dialog EXCEPT
                     !.pc = IF dialog.appointment.user_id = dialog.session
                            THEN "delete" ELSE "done"]
    /\ DialogFrame

\* DELETE /api/appointments/[id]/assignees, sent by the owner
DialogDelete ==
    /\ dialog.pc = "delete"
    /\ appointment_assignee' =
         {r \in appointment_assignee : r.appointment # EditedAppointment}
    /\ response' = Reply(200, "Assignees deleted successfully")
    /\ dialog' = [dialog EXCEPT
                     !.pc = IF Len(dialog.merged) > 0 THEN "post" ELSE "done"]
    /\ UNCHANGED <<dashboard_access, nextId, nextToken, calls, resolverVars,
                   appointmentVars, rateVars, registerVars, viewVars, sending,
                   posting>>

\* POST /api/appointments/[id]/assignees with the merged list, sent by the
\* owner: the handler passes its tests and enters its insert loop
DialogPost ==
    /\ dialog.pc = "post"
    /\ posting' = Append(posting,
                         [id |-> EditedAppointment, session |-> dialog.session,
                          rest |-> PostedAssignees(dialog.merged)])
    /\ dialog' = [dialog EXCEPT !.pc = "posting"]
    /\ UNCHANGED <<coreVars, rateVars, registerVars, viewVars, sending>>

\* the POST, the only one sent here, has answered and handleSave returns
DialogDone ==
    /\ dialog.pc = "posting"
    /\ posting = <<>>
    /\ dialog' = [dialog EXCEPT !.pc = "done"]
    /\ DialogFrame

\* a pending invitation to the edited appointment, created by its owner
DialogSpecInit ==
    /\ appointment_assignee = {PendingAssignee}
    /\ dashboard_access = {}
    /\ nextId = 2
    /\ nextToken = 2
    /\ calls = [p \in Calls |-> IdleCall]
    /\ response = NoResponse
    /\ \E a \in DialogAppointments :
          appointments = {a} \cup
              {x \in StoredAppointments : x.id # EditedAppointment}
    /\ apiResponse = NoApiResponse
    /\ appointmentsCreated = 0
    /\ ServiceInit
    /\ resolverIn = IdleResolver
    /\ resolverOut = Unset

DialogNext ==
    \/ \E s \in DialogSessions : DialogOpen(s)
    \/ DialogPrefillFetch
    \/ DialogPrefillSet
    \/ \E t \in UserTypes : DialogAdd(t)
    \/ \E i \in DOMAIN dialog.assignees : DialogRemove(i)
    \/ \E changed \in BOOLEAN : DialogSave(changed)
    \/ DialogPatch
    \/ DialogFetch
    \/ DialogMe
    \/ DialogDelete
    \/ DialogPost
    \/ \E i \in DOMAIN posting : InsertAssignee(i)
    \/ DialogDone
    \/ \E p \in Calls, b \in RedeemBodies : RedeemAppointment(p, b[1], b[2])
    \/ \E p \in Calls : RedeemDashboard(p)

DialogSpec == DialogSpecInit /\ [][DialogNext]_vars

\* C29: once the dialog's save has run, every invitation that was pending
\* when it began is still stored under its original token, pending or
\* redeemed through that token, whatever redeems ran in between.
C29_EditKeepsInvitations ==
    dialog.pc = "done" =>
        \A t \in dialog.pending :
            \E r \in appointment_assignee :
                /\ r.appointment = EditedAppointment
                /\ r.invitation_token = t
                /\ r.status \in {"pending", "accepted"}

\* ----------------------------------- assignee edits by callers not the owner
ForbiddenEdit == "Forbidden: You can only modify your own appointments"

\* the grant tables under invitations and assignee edits alone, the edits
\* sent with every session
AssigneeNext ==
    \/ \E s \in InviterSessions, b \in InvitationBodies : CreateInvitation(s, b)
    \/ \E t \in sending, ok \in BOOLEAN : SendInvitation(t, ok)
    \/ \E s \in Sessions, id \in AppointmentIdInputs, a \in AssigneeBodies :
          AddAssignees(s, id, a)
    \/ \E i \in DOMAIN posting : InsertAssignee(i)
    \/ \E s \in Sessions, id \in AppointmentIdInputs : RemoveAssignees(s, id)

AssigneeSpec == Init /\ [][AssigneeNext]_vars

\* C30: POST and DELETE /api/appointments/[id]/assignees sent by an
\* authenticated user who does not own the appointment are answered 403, and
\* sent for an appointment that does not exist are answered 404; in both
\* cases the grant tables stay as they are.
C30_NonOwnerEditRefused ==
    [][\A s \in Users, id \in AppointmentIdInputs :
          /\ \A a \in AssigneeBodies :
                AddAssignees(s, id, a)
                => /\ (id \in AppointmentIds /\ OwnerOf(id) # s)
                        => (response'.status = 403 /\ UNCHANGED tables)
                   /\ id \notin AppointmentIds
                        => (response'.status = 404 /\ UNCHANGED tables)
          /\ RemoveAssignees(s, id)
                => /\ (id \in AppointmentIds /\ OwnerOf(id) # s)
                        => (response'.status = 403 /\ UNCHANGED tables)
                   /\ id \notin AppointmentIds
                        => (response'.status = 404 /\ UNCHANGED tables)]_vars

\* a non-owner's edit was refused while the appointments had grants to lose
C30_Witness ==
    /\ response.status = 403
    /\ response.body = ForbiddenEdit
    /\ \E r \in appointment_assignee : r.appointment = "a1"
====
